---- MODULE Spec2Model ----
(***************************************************************************)
(* ham-radio-recorder: the background service worker's recording engine    *)
(* (background/index.ts), the WebSocket client it drives (lib/ws-client.ts) *)
(* and the offscreen capture page (tabs/offscreen.tsx).                     *)
(*                                                                         *)
(* JavaScript runs one task at a time: a handler runs without interruption *)
(* from one `await` to the next.  Every action below is one such segment:  *)
(* it resumes a handler from the await it is suspended at, runs the         *)
(* synchronous code that follows, and suspends it at the next await or     *)
(* ends it.  chrome.alarms.create/clear and addLog take effect in the      *)
(* segment that calls them (the browser applies them in call order); a     *)
(* storage read, a message to the offscreen page and closeOffscreen take   *)
(* effect when the handler resumes.  An await whose continuation only      *)
(* starts the next wait (a log write followed by a delay) is one wait.     *)
(* A handler that has returned gives its slot back: the slots bound the    *)
(* number of invocations in progress, not the number of invocations.       *)
(***************************************************************************)
EXTENDS Integers, Sequences, FiniteSets, TLC

\* ---- bounds of the model ------------------------------------------------
\* invocations of executeRecordingFlow (alarm-triggered or manual) in progress
MaxFlows == 2
\* invocations of stopRecording in progress
MaxStops == 1
\* invocations of the STOP_ALARM listener in progress
MaxAlarmRuns == 1
\* invocations of handleRecordingResult in progress
MaxResultRuns == 1
\* invocations of testWsConnection in progress
MaxTests == 1
\* sendCommand() calls in flight on a WsClient taken on its own
MaxCmds == 2
\* frames counted on the socket of a WsClient taken on its own
MaxSent == 2
\* addLog() calls in progress at once, and made in all, on the log taken on
\* its own
MaxLogRuns == 2
MaxLogCalls == 4
\* schedule handlers and start-alarm listeners in progress at once
MaxSchedRuns == 2
\* createSchedule and deleteSchedule requests made in all
MaxSchedCalls == 2
\* restarts of the service worker
MaxBoots == 1
\* the days after the first the clock runs through
MaxDay == 1
\* handler invocations of any kind in progress at once: a further request,
\* alarm or result event waits until one of them has returned
MaxActive == 2
\* capture-context events in flight towards the service worker: the page's
\* next event waits until there is room
MaxInbox == 1
\* the elapsed seconds a ticker or a progress report can show
MaxElapsed == 1

\* ---- program constants --------------------------------------------------
\* connect(): maxRetries passed by executeRecordingFlow
maxRetries == 3
\* `null` of the numeric fields (currentFreq, recordingElapsed, recordingTotal)
NullNum == -1
\* `null` of the string fields (currentMode, errorMessage)
NULL == "null"

FlowIds == 1..MaxFlows
StopIds == 1..MaxStops
AlarmIds == 1..MaxAlarmRuns
ResIds == 1..MaxResultRuns
TestIds == 1..MaxTests
CmdIds == 1..MaxCmds
LogRunIds == 1..MaxLogRuns
SchedRunIds == 1..MaxSchedRuns
\* Schedule.id of the schedules in use
SchedIds == {"a", "b"}

\* RecordingParams of the requests (manualRecord, or a schedule's alarm)
ParamSet ==
    { [frequency |-> 7, mode |-> "LSB", dataMode |-> FALSE, durationMin |-> 1] }
NoParams == [frequency |-> 0, mode |-> NULL, dataMode |-> FALSE, durationMin |-> 0]
\* Settings.deviceId: "" is DEFAULT_SETTINGS (no device configured)
DeviceIds == {"", "usb-audio"}

VARIABLES
    eng,        \* the module-level state of background/index.ts
    wsClient,   \* the WsClient instance: ws, messageListeners
    stopAlarm,  \* chrome.alarms: whether STOP_ALARM is registered
    off,        \* the offscreen document and its MediaRecorder
    inbox,      \* messages sent by the offscreen page, not yet delivered
    logs,       \* the stored log (newest first): its head entry's message
    settings,   \* the stored settings: deviceId
    flow,       \* the invocations of executeRecordingFlow
    stopH,      \* the invocations of stopRecording
    alarmH,     \* the invocations of the onAlarm listener for STOP_ALARM
    resultH,    \* the invocations of handleRecordingResult
    bridge,     \* the remote endpoint: "down" refuses every connection
    testH,      \* the invocations of testWsConnection
    calc,       \* the arithmetic checked on its own: inputs and results
    conn,       \* WsClient on its own: the connect() call in progress
    cmd,        \* WsClient on its own: the sendCommand() calls
    sock,       \* WsClient on its own: frames sent, the last frame received
    clock,      \* storage and alarms on their own: the time, in minutes
    logStore,   \* chrome.storage.local "logs": the entries' timestamps
    logH,       \* the addLog() calls in progress
    schedStore, \* chrome.storage.local "schedules"
    alarms,     \* chrome.alarms: the start alarm registered for each schedule id
    schedH      \* the schedule handlers and start-alarm listeners in progress

vars ==
    <<eng, wsClient, stopAlarm, off, inbox, logs, flow, stopH, alarmH, resultH, bridge,
      settings, testH, calc, conn, cmd, sock,
      clock, logStore, logH, schedStore, alarms, schedH>>

\* ---- background/index.ts: state management ------------------------------

setState_keepError(e, state, error) ==
    [e EXCEPT !.currentState = state,
              !.errorMessage = IF state = "idle" THEN @ ELSE error,
              !.recordingElapsed = IF state = "idle" THEN NullNum ELSE @,
              !.recordingTotal = IF state = "idle" THEN NullNum ELSE @]

\* setState(state, error?): `error ?? null` is passed as NULL by the callers
setState(e, state, error) ==
    [e EXCEPT !.currentState = state,
              !.errorMessage = error,
              !.recordingElapsed = IF state = "idle" THEN NullNum ELSE @,
              !.recordingTotal = IF state = "idle" THEN NullNum ELSE @]

resetState_noop(e) == e

resetState(e) ==
    IF e.currentState = "error" THEN setState(e, "idle", NULL) ELSE e

clearProgressInterval(e) ==
    [e EXCEPT !.progressInterval = FALSE]

\* the entry guard of executeRecordingFlow, evaluated after the auto-reset
flowBusy_never(e) == FALSE

flowBusy(e) == e.currentState # "idle"

\* ---- lib/storage.ts -----------------------------------------------------

\* addLog lines 190-218: logs.unshift(entry)
addLog(msg) == msg

\* ---- lib/ws-client.ts ---------------------------------------------------

isConnected_always(c) == TRUE

isConnected(c) == c.ws = "open"

disconnect_keepSocket(c) == [c EXCEPT !.messageListeners = <<>>]

disconnect(c) == [ws |-> NULL, messageListeners |-> <<>>]

addMessageListener(c, owner, type) ==
    [c EXCEPT !.messageListeners = Append(@, [owner |-> owner, type |-> type])]

removeMessageListener_noop(c, owner, type) == c

\* indexOf + splice: the first entry of this owner's listener
removeMessageListener(c, owner, type) ==
    LET l == c.messageListeners
        hits == {i \in 1..Len(l) : l[i] = [owner |-> owner, type |-> type]}
    IN  IF hits = {} THEN c
        ELSE LET idx == CHOOSE i \in hits : \A j \in hits : i <= j
             IN  [c EXCEPT !.messageListeners =
                     SubSeq(l, 1, idx - 1) \o SubSeq(l, idx + 1, Len(l))]

\* ---- tabs/offscreen.tsx -------------------------------------------------

resultEvent(success) == [action |-> "recordingResult", success |-> success, elapsed |-> 0, total |-> 0]
progressEvent(elapsed, total) ==
    [action |-> "recordingProgress", success |-> TRUE, elapsed |-> elapsed, total |-> total]

\* handleStartRecording: gotStream is the outcome of getUserMedia
handleStartRecording(o, durationMs, gotStream) ==
    IF o.recording THEN o
    ELSE IF gotStream THEN [o EXCEPT !.recording = TRUE, !.totalDurationMs = durationMs]
    ELSE o

\* cleanupTimers + mediaRecorder.stop(): the recorder leaves "recording"
stopRecorder(o) == [o EXCEPT !.recording = FALSE]

NewFlow == [pc |-> "new", params |-> NoParams, deviceId |-> "", attempt |-> 0]

\* an invocation of handleRecordingResult: msg.success, and the engine state
\* it found when it ran line 408 (kept for the properties)
NewResult == [pc |-> "new", success |-> FALSE, handledIn |-> NULL]

\* no arithmetic under way
NoCalc == [op |-> "none"]

\* no connect() call made yet
NoConnect ==
    [pc |-> "idle", maxRetries |-> 0, attempt |-> 0, made |-> 0, delays |-> 0,
     lastError |-> NULL, error |-> NULL]

\* a sendCommand() call not made yet
NewCmd == [pc |-> "new", type |-> NULL, timer |-> FALSE, outcome |-> NULL]

NoSock == [sent |-> 0, lastIn |-> NULL]

\* the time in minutes since a midnight, restarts and addLog calls so far
NoClock == [now |-> 0, boots |-> 0, calls |-> 0]

\* an addLog() call not made
NoLogRun == [pc |-> "new", entry |-> 0, logs |-> <<>>]

\* no alarm registered under a name
NoAlarm == [set |-> FALSE, when |-> 0, period |-> 0]

\* a handler slot not in use
NoSchedRun ==
    [kind |-> "none", pc |-> "new", id |-> NULL, schedule |-> NULL, schedules |-> <<>>,
     scheduledTime |-> 0, durationMin |-> 0]

\* ---- initial state ------------------------------------------------------

Init ==
    /\ eng = [currentState |-> "idle", currentFreq |-> NullNum, currentMode |-> NULL,
              recordingElapsed |-> NullNum, recordingTotal |-> NullNum,
              errorMessage |-> NULL, progressInterval |-> FALSE]
    /\ wsClient = [ws |-> NULL, messageListeners |-> <<>>]
    /\ stopAlarm = FALSE
    /\ off = [doc |-> FALSE, recording |-> FALSE, totalDurationMs |-> 0]
    /\ inbox = <<>>
    /\ logs = ""
    /\ settings \in [deviceId : DeviceIds]
    /\ flow = [f \in FlowIds |-> NewFlow]
    /\ stopH = [s \in StopIds |-> [pc |-> "new"]]
    /\ alarmH = [a \in AlarmIds |-> [pc |-> "new"]]
    /\ resultH = [r \in ResIds |-> NewResult]
    /\ bridge \in {"down", "flaky"}
    /\ testH = [t \in TestIds |-> [pc |-> "new"]]
    /\ calc = NoCalc
    /\ conn = NoConnect
    /\ cmd = [c \in CmdIds |-> NewCmd]
    /\ sock = NoSock
    /\ clock = NoClock
    /\ logStore = <<>>
    /\ logH = [h \in LogRunIds |-> NoLogRun]
    /\ schedStore = <<>>
    /\ alarms = [id \in SchedIds |-> NoAlarm]
    /\ schedH = [h \in SchedRunIds |-> NoSchedRun]

\* ---- the handlers in progress -------------------------------------------

Active ==
    Cardinality({f \in FlowIds : flow[f].pc # "new"})
    + Cardinality({s \in StopIds : stopH[s].pc # "new"})
    + Cardinality({a \in AlarmIds : alarmH[a].pc # "new"})
    + Cardinality({r \in ResIds : resultH[r].pc # "new"})
    + Cardinality({t \in TestIds : testH[t].pc # "new"})

\* ---- background/index.ts: executeRecordingFlow --------------------------

FlowAt(f, pc) == flow[f].pc = pc

FlowTo(f, pc) == flow' = [flow EXCEPT ![f].pc = pc]

\* the function returns
FlowEnd(f) == flow' = [flow EXCEPT ![f] = NewFlow]

\* lines 153-168: auto-reset, entry guard, getSettings() called.  A free slot
\* is taken lowest first.
FlowInvoke(f) ==
    /\ FlowAt(f, "new")
    /\ Active < MaxActive
    /\ \A g \in FlowIds : g < f => flow[g].pc # "new"
    /\ \E p \in ParamSet :
        LET e == resetState(eng) IN
        IF flowBusy(e)
        THEN /\ eng' = e
             /\ logs' = addLog("Recording flow skipped: already busy")
             /\ flow' = flow
        ELSE /\ eng' = e
             /\ logs' = logs
             /\ flow' = [flow EXCEPT ![f].pc = "getSettings", ![f].params = p]
    /\ UNCHANGED <<wsClient, stopAlarm, off, inbox, stopH, alarmH, resultH, bridge, settings, testH, calc, conn, cmd, sock, clock, logStore, logH, schedStore, alarms, schedH>>

\* lines 168-179: getSettings() returned or threw
FlowSettings(f) ==
    /\ FlowAt(f, "getSettings")
    /\ \/ /\ flow' = [flow EXCEPT ![f].pc = "logStart", ![f].deviceId = settings.deviceId]
          /\ logs' = addLog("Starting recording flow")
       \/ /\ FlowTo(f, "logSettingsFail")
          /\ logs' = addLog("Failed to load settings")
    /\ UNCHANGED <<eng, wsClient, stopAlarm, off, inbox, stopH, alarmH, resultH, bridge, settings, testH, calc, conn, cmd, sock, clock, logStore, logH, schedStore, alarms, schedH>>

\* lines 171-172
FlowSettingsFailed(f) ==
    /\ FlowAt(f, "logSettingsFail")
    /\ eng' = setState(eng, "error", "Failed to load settings")
    /\ FlowEnd(f)
    /\ UNCHANGED <<wsClient, stopAlarm, off, inbox, logs, stopH, alarmH, resultH, bridge, settings, testH, calc, conn, cmd, sock, clock, logStore, logH, schedStore, alarms, schedH>>

\* lines 182-188 and connect() lines 49-63: setState("connecting"), the old
\* connection torn down, the first attemptConnect started
FlowConnect(f) ==
    /\ FlowAt(f, "logStart")
    /\ eng' = setState(eng, "connecting", NULL)
    /\ wsClient' = disconnect(wsClient)
    /\ flow' = [flow EXCEPT ![f].pc = "connecting", ![f].attempt = 1]
    /\ UNCHANGED <<stopAlarm, off, inbox, logs, stopH, alarmH, resultH, bridge, settings, testH, calc, conn, cmd, sock, clock, logStore, logH, schedStore, alarms, schedH>>

\* attemptConnect: ws.onopen (lines 193-201); connect returns (line 65) and the
\* flow calls addLog (line 189)
FlowAttemptOpen(f) ==
    /\ FlowAt(f, "connecting")
    /\ bridge # "down"
    /\ wsClient' = [wsClient EXCEPT !.ws = "open"]
    /\ logs' = addLog("WebSocket connected")
    /\ flow' = [flow EXCEPT ![f].pc = "logConnected", ![f].attempt = 0]
    /\ UNCHANGED <<eng, stopAlarm, off, inbox, stopH, alarmH, resultH, bridge, settings, testH, calc, conn, cmd, sock, clock, logStore, logH, schedStore, alarms, schedH>>

\* whether connect() gives up after a failed attempt (line 61, line 73)
lastAttempt_early(attempt) == attempt >= maxRetries - 1

lastAttempt(attempt) == attempt >= maxRetries

\* attemptConnect rejected (timeout, onerror, onclose): lines 66-75 with the
\* delay and the next attempt, and after the last attempt lines 79-81 and 190-192
FlowAttemptFail(f) ==
    /\ FlowAt(f, "connecting")
    /\ IF lastAttempt(flow[f].attempt)
       THEN /\ FlowTo(f, "logConnFail")
            /\ logs' = addLog("WebSocket connection failed")
       ELSE /\ flow' = [flow EXCEPT ![f].attempt = @ + 1]
            /\ logs' = logs
    /\ UNCHANGED <<eng, wsClient, stopAlarm, off, inbox, stopH, alarmH, resultH, bridge, settings, testH, calc, conn, cmd, sock, clock, logStore, logH, schedStore, alarms, schedH>>

\* lines 193-194
FlowConnectFailed(f) ==
    /\ FlowAt(f, "logConnFail")
    /\ eng' = setState(eng, "error", "WS connection failed")
    /\ FlowEnd(f)
    /\ UNCHANGED <<wsClient, stopAlarm, off, inbox, logs, stopH, alarmH, resultH, bridge, settings, testH, calc, conn, cmd, sock, clock, logStore, logH, schedStore, alarms, schedH>>

\* sendCommand lines 98-150 as called by flow f: not connected -> throws, and
\* the flow's catch calls addLog; connected -> listener registered, command sent
FlowSend(f, state, type, waitPc, failPc, failMsg) ==
    /\ eng' = setState(eng, state, NULL)
    /\ IF isConnected(wsClient)
       THEN /\ wsClient' = addMessageListener(wsClient, f, type)
            /\ FlowTo(f, waitPc)
            /\ logs' = logs
       ELSE /\ wsClient' = wsClient
            /\ FlowTo(f, failPc)
            /\ logs' = addLog(failMsg)
    /\ UNCHANGED <<stopAlarm, off, inbox, stopH, alarmH, resultH, bridge, settings, testH, calc, conn, cmd, sock, clock, logStore, logH, schedStore, alarms, schedH>>

\* lines 198-209
FlowSendFreq(f) ==
    /\ FlowAt(f, "logConnected")
    /\ FlowSend(f, "setting_freq", "setFreqResult", "awaitFreq", "logFreqFail", "setFreq failed")

\* lines 210-213: the flow's use of a setFreqResult
onFreqResult_always(e, p, success) == [e EXCEPT !.currentFreq = p.frequency]

onFreqResult(e, p, success) ==
    IF success THEN [e EXCEPT !.currentFreq = p.frequency] ELSE e

\* lines 240-243
onModeResult(e, p, success) ==
    IF success THEN [e EXCEPT !.currentMode = p.mode] ELSE e

\* the listeners a message of this type resolves, in listener order
Waiters(type) ==
    SelectSeq(wsClient.messageListeners, LAMBDA l : l.type = type)

RECURSIVE ApplyResults(_, _, _, _)
ApplyResults(e, ws, type, success) ==
    IF ws = <<>> THEN e
    ELSE LET p == flow[Head(ws).owner].params
             e2 == IF type = "setFreqResult" THEN onFreqResult(e, p, success)
                   ELSE onModeResult(e, p, success)
         IN  ApplyResults(e2, Tail(ws), type, success)

\* setupMessageHandler lines 232-240: an inbound message is handed to every
\* registered listener; each listener of a matching type removes itself and
\* resolves (lines 108-115), and its flow continues: lines 210-214 and the
\* 200 ms delay of line 224, lines 240-244, or the catch (lines 215-217,
\* 245-247)
WsMessage(type, success) ==
    /\ Waiters(type) # <<>>
    /\ LET ws == Waiters(type)
           owners == {ws[i].owner : i \in 1..Len(ws)}
           isFreq == type = "setFreqResult"
           okPc == IF isFreq THEN "delay200" ELSE "logModeOk"
           failPc == IF isFreq THEN "logFreqFail" ELSE "logModeFail"
       IN  /\ eng' = ApplyResults(eng, ws, type, success)
           /\ wsClient' = [wsClient EXCEPT !.messageListeners =
                              SelectSeq(@, LAMBDA l : l.type # type)]
           /\ flow' = [f \in FlowIds |->
                          IF f \in owners
                          THEN [flow[f] EXCEPT !.pc = IF success THEN okPc ELSE failPc]
                          ELSE flow[f]]
           /\ logs' = addLog(IF isFreq
                             THEN (IF success THEN "Frequency set" ELSE "setFreq failed")
                             ELSE (IF success THEN "Mode set" ELSE "setMode failed"))
    /\ UNCHANGED <<stopAlarm, off, inbox, stopH, alarmH, resultH, bridge, settings, testH, calc, conn, cmd, sock, clock, logStore, logH, schedStore, alarms, schedH>>

\* sendCommand lines 126-133: the timer fires; cleanup, reject; the flow's
\* catch calls addLog (lines 215-217, 245-247)
FlowTimeout(f) ==
    /\ flow[f].pc \in {"awaitFreq", "awaitMode"}
    /\ LET isFreq == FlowAt(f, "awaitFreq")
       IN  /\ wsClient' = removeMessageListener(wsClient, f,
                              IF isFreq THEN "setFreqResult" ELSE "setModeResult")
           /\ FlowTo(f, IF isFreq THEN "logFreqFail" ELSE "logModeFail")
           /\ logs' = addLog(IF isFreq THEN "setFreq failed" ELSE "setMode failed")
    /\ UNCHANGED <<eng, stopAlarm, off, inbox, stopH, alarmH, resultH, bridge, settings, testH, calc, conn, cmd, sock, clock, logStore, logH, schedStore, alarms, schedH>>

\* lines 218-220
FlowFreqFailed_continues(f) ==
    /\ FlowAt(f, "logFreqFail")
    /\ eng' = setState(eng, "error", "setFreq failed")
    /\ wsClient' = disconnect(wsClient)
    /\ FlowTo(f, "delay200")
    /\ UNCHANGED <<stopAlarm, off, inbox, logs, stopH, alarmH, resultH, bridge, settings, testH, calc, conn, cmd, sock, clock, logStore, logH, schedStore, alarms, schedH>>

FlowFreqFailed(f) ==
    /\ FlowAt(f, "logFreqFail")
    /\ eng' = setState(eng, "error", "setFreq failed")
    /\ wsClient' = disconnect(wsClient)
    /\ FlowEnd(f)
    /\ UNCHANGED <<stopAlarm, off, inbox, logs, stopH, alarmH, resultH, bridge, settings, testH, calc, conn, cmd, sock, clock, logStore, logH, schedStore, alarms, schedH>>

\* lines 227-239, after the 200 ms delay
FlowSendMode(f) ==
    /\ FlowAt(f, "delay200")
    /\ FlowSend(f, "setting_mode", "setModeResult", "awaitMode", "logModeFail", "setMode failed")

\* lines 248-250
FlowModeFailed(f) ==
    /\ FlowAt(f, "logModeFail")
    /\ eng' = setState(eng, "error", "setMode failed")
    /\ wsClient' = disconnect(wsClient)
    /\ FlowEnd(f)
    /\ UNCHANGED <<stopAlarm, off, inbox, logs, stopH, alarmH, resultH, bridge, settings, testH, calc, conn, cmd, sock, clock, logStore, logH, schedStore, alarms, schedH>>

\* lines 254-263: disconnect, setState("recording"), counters, ensureOffscreen()
FlowRecord(f) ==
    /\ FlowAt(f, "logModeOk")
    /\ wsClient' = disconnect(wsClient)
    /\ eng' = [setState(eng, "recording", NULL) EXCEPT
                  !.recordingTotal = flow[f].params.durationMin * 60,
                  !.recordingElapsed = 0]
    /\ FlowTo(f, "ensureOffscreen")
    /\ UNCHANGED <<stopAlarm, off, inbox, logs, stopH, alarmH, resultH, bridge, settings, testH, calc, conn, cmd, sock, clock, logStore, logH, schedStore, alarms, schedH>>

\* ensureOffscreen lines 102-122 returned; lines 265-274: no device -> throw
\* (the catch calls addLog), else the start message is sent
FlowEnsured_noDeviceCheck(f) ==
    /\ FlowAt(f, "ensureOffscreen")
    /\ off' = [off EXCEPT !.doc = TRUE]
    /\ FlowTo(f, "sendStart")
    /\ UNCHANGED <<eng, wsClient, stopAlarm, inbox, logs, stopH, alarmH, resultH, bridge, settings, testH, calc, conn, cmd, sock, clock, logStore, logH, schedStore, alarms, schedH>>

FlowEnsured(f) ==
    /\ FlowAt(f, "ensureOffscreen")
    /\ off' = [off EXCEPT !.doc = TRUE]
    /\ IF flow[f].deviceId = ""
       THEN /\ FlowTo(f, "logRecFail")
            /\ logs' = addLog("Recording start failed")
       ELSE /\ FlowTo(f, "sendStart")
            /\ logs' = logs
    /\ UNCHANGED <<eng, wsClient, stopAlarm, inbox, stopH, alarmH, resultH, bridge, settings, testH, calc, conn, cmd, sock, clock, logStore, logH, schedStore, alarms, schedH>>

\* sendToOffscreen(startRecording) settled: the page ran handleStartRecording
\* and answered (line 269 awaits the call and drops the answer), or there was
\* no page to receive the message and the call rejected.  Lines 276-278 /
\* 295-297.
FlowStartReplied(f) ==
    /\ FlowAt(f, "sendStart")
    /\ IF off.doc
       THEN /\ \E gotStream \in BOOLEAN :
                 off' = handleStartRecording(off, flow[f].params.durationMin * 60000, gotStream)
            /\ FlowTo(f, "logRecStarted")
            /\ logs' = addLog("Recording started")
       ELSE /\ off' = off
            /\ FlowTo(f, "logRecFail")
            /\ logs' = addLog("Recording start failed")
    /\ UNCHANGED <<eng, wsClient, stopAlarm, inbox, stopH, alarmH, resultH, bridge, settings, testH, calc, conn, cmd, sock, clock, logStore, logH, schedStore, alarms, schedH>>

\* lines 283-286: chrome.alarms.create(STOP_ALARM) called
armStopAlarm_never(armed) == armed

\* lines 284-286: chrome.alarms.create(STOP_ALARM, ...)
armStopAlarm(armed) == TRUE

FlowArm(f) ==
    /\ FlowAt(f, "logRecStarted")
    /\ stopAlarm' = armStopAlarm(stopAlarm)
    /\ FlowTo(f, "armAlarm")
    /\ UNCHANGED <<eng, wsClient, off, inbox, logs, stopH, alarmH, resultH, bridge, settings, testH, calc, conn, cmd, sock, clock, logStore, logH, schedStore, alarms, schedH>>

\* lines 290-293: the local ticker started; the flow function returns
FlowTicker(f) ==
    /\ FlowAt(f, "armAlarm")
    /\ eng' = [eng EXCEPT !.progressInterval = TRUE]
    /\ FlowEnd(f)
    /\ UNCHANGED <<wsClient, stopAlarm, off, inbox, logs, stopH, alarmH, resultH, bridge, settings, testH, calc, conn, cmd, sock, clock, logStore, logH, schedStore, alarms, schedH>>

\* lines 298-299: setState("error"), closeOffscreen() called
FlowRecFailed(f) ==
    /\ FlowAt(f, "logRecFail")
    /\ eng' = setState(eng, "error", "Recording start failed")
    /\ FlowTo(f, "closeOffscreen")
    /\ UNCHANGED <<wsClient, stopAlarm, off, inbox, logs, stopH, alarmH, resultH, bridge, settings, testH, calc, conn, cmd, sock, clock, logStore, logH, schedStore, alarms, schedH>>

\* closeOffscreen lines 124-136 takes effect: the document goes away.  A page
\* unloaded while its recorder runs sends an emergency success result if it
\* holds any chunk (tabs/offscreen.tsx beforeunload, lines 227-246).
CloseOffscreen ==
    \E chunks \in BOOLEAN :
        /\ off.doc /\ off.recording /\ chunks => Len(inbox) < MaxInbox
        /\ off' = [doc |-> FALSE, recording |-> FALSE, totalDurationMs |-> 0]
        /\ inbox' = IF off.doc /\ off.recording /\ chunks
                    THEN Append(inbox, resultEvent(TRUE)) ELSE inbox

FlowClosed(f) ==
    /\ FlowAt(f, "closeOffscreen")
    /\ CloseOffscreen
    /\ FlowEnd(f)
    /\ UNCHANGED <<eng, wsClient, stopAlarm, logs, stopH, alarmH, resultH, bridge, settings, testH, calc, conn, cmd, sock, clock, logStore, logH, schedStore, alarms, schedH>>

FlowStep(f) ==
    \/ FlowInvoke(f) \/ FlowSettings(f) \/ FlowSettingsFailed(f)
    \/ FlowConnect(f) \/ FlowAttemptOpen(f) \/ FlowAttemptFail(f)
    \/ FlowConnectFailed(f) \/ FlowSendFreq(f) \/ FlowTimeout(f) \/ FlowFreqFailed(f)
    \/ FlowSendMode(f) \/ FlowModeFailed(f) \/ FlowRecord(f)
    \/ FlowEnsured(f) \/ FlowStartReplied(f) \/ FlowArm(f) \/ FlowTicker(f)
    \/ FlowRecFailed(f) \/ FlowClosed(f)

\* ---- tabs/offscreen.tsx: the capture page as seen from the worker -------

\* handleStopRecording lines 150-161, then MediaRecorder.onstop ->
\* finalizeRecording lines 163-194: a running recorder stops and the page sends
\* its result, a success iff it holds any chunk
OffStop(chunks) ==
    /\ off.recording => Len(inbox) < MaxInbox
    /\ off' = IF off.recording THEN stopRecorder(off) ELSE off
    /\ inbox' = IF off.recording THEN Append(inbox, resultEvent(chunks)) ELSE inbox

\* the page's own stopTimer (lines 135-138) or MediaRecorder.onerror (lines
\* 105-116) ends the capture
OffRecorderEnds ==
    /\ off.recording
    /\ \E chunks \in BOOLEAN : OffStop(chunks)
    /\ UNCHANGED <<eng, wsClient, stopAlarm, logs, flow, stopH, alarmH, resultH, bridge, settings, testH, calc, conn, cmd, sock, clock, logStore, logH, schedStore, alarms, schedH>>

\* recordingTimer lines 125-132: a progress report
OffProgress ==
    /\ off.recording
    /\ Len(inbox) < MaxInbox
    /\ \E t \in 1..MaxElapsed :
          inbox' = Append(inbox, progressEvent(t, off.totalDurationMs \div 1000))
    /\ UNCHANGED <<eng, wsClient, stopAlarm, off, logs, flow, stopH, alarmH, resultH, bridge, settings, testH, calc, conn, cmd, sock, clock, logStore, logH, schedStore, alarms, schedH>>

\* ---- background/index.ts: stopRecording ---------------------------------

StopTo(s, pc) == stopH' = [stopH EXCEPT ![s].pc = pc]

\* line 308: chrome.alarms.clear(STOP_ALARM) called
StopInvoke(s) ==
    /\ stopH[s].pc = "new"
    /\ Active < MaxActive
    /\ \A t \in StopIds : t < s => stopH[t].pc # "new"
    /\ stopAlarm' = FALSE
    /\ StopTo(s, "clearAlarm")
    /\ UNCHANGED <<eng, wsClient, off, inbox, logs, flow, alarmH, resultH, bridge, settings, testH, calc, conn, cmd, sock, clock, logStore, logH, schedStore, alarms, schedH>>

\* lines 309-326
StopCleared(s) ==
    /\ stopH[s].pc = "clearAlarm"
    /\ eng' = clearProgressInterval(eng)
    /\ IF eng.currentState = "error"
       THEN logs' = addLog("Force reset from error state") /\ StopTo(s, "logReset")
       ELSE IF eng.currentState # "recording"
       THEN logs' = addLog("stopRecording called but not recording") /\ StopTo(s, "new")
       ELSE logs' = logs /\ StopTo(s, "sendStop")
    /\ UNCHANGED <<wsClient, stopAlarm, off, inbox, flow, alarmH, resultH, bridge, settings, testH, calc, conn, cmd, sock, clock, logStore, logH, schedStore, alarms, schedH>>

\* lines 314-315
StopResetLogged_noDisconnect(s) ==
    /\ stopH[s].pc = "logReset"
    /\ StopTo(s, "resetClose")
    /\ UNCHANGED <<eng, wsClient, stopAlarm, off, inbox, logs, flow, alarmH, resultH, bridge, settings, testH, calc, conn, cmd, sock, clock, logStore, logH, schedStore, alarms, schedH>>

StopResetLogged(s) ==
    /\ stopH[s].pc = "logReset"
    /\ wsClient' = disconnect(wsClient)
    /\ StopTo(s, "resetClose")
    /\ UNCHANGED <<eng, stopAlarm, off, inbox, logs, flow, alarmH, resultH, bridge, settings, testH, calc, conn, cmd, sock, clock, logStore, logH, schedStore, alarms, schedH>>

\* lines 316-317
StopResetClosed(s) ==
    /\ stopH[s].pc = "resetClose"
    /\ CloseOffscreen
    /\ eng' = setState(eng, "idle", NULL)
    /\ StopTo(s, "new")
    /\ UNCHANGED <<wsClient, stopAlarm, logs, flow, alarmH, resultH, bridge, settings, testH, calc, conn, cmd, sock, clock, logStore, logH, schedStore, alarms, schedH>>

\* sendToOffscreen(stopRecording) settled: line 327 and the 2 s wait of line
\* 329, or the catch of lines 330-331
StopReplied(s) ==
    /\ stopH[s].pc = "sendStop"
    /\ IF off.doc
       THEN /\ \E chunks \in BOOLEAN : OffStop(chunks)
            /\ StopTo(s, "wait2s")
            /\ logs' = addLog("Stop signal sent to offscreen")
       ELSE /\ UNCHANGED <<off, inbox>>
            /\ StopTo(s, "logUnreachable")
            /\ logs' = addLog("Offscreen unreachable, force-closing")
    /\ UNCHANGED <<eng, wsClient, stopAlarm, flow, alarmH, resultH, bridge, settings, testH, calc, conn, cmd, sock, clock, logStore, logH, schedStore, alarms, schedH>>

\* what stopRecording does after the wait: force-close iff still recording
stopForce_never(state) == FALSE

stopForce(state) == state = "recording"

\* lines 335-337: still recording after the wait (or after the failed send)?
StopCheck(s) ==
    /\ stopH[s].pc \in {"wait2s", "logUnreachable"}
    /\ IF stopForce(eng.currentState)
       THEN logs' = addLog("Force-closing offscreen and resetting state") /\ StopTo(s, "forceClose")
       ELSE logs' = logs /\ StopTo(s, "new")
    /\ UNCHANGED <<eng, wsClient, stopAlarm, off, inbox, flow, alarmH, resultH, bridge, settings, testH, calc, conn, cmd, sock, clock, logStore, logH, schedStore, alarms, schedH>>

\* lines 337-338
StopForceClosed(s) ==
    /\ stopH[s].pc = "forceClose"
    /\ CloseOffscreen
    /\ eng' = setState(eng, "idle", NULL)
    /\ StopTo(s, "new")
    /\ UNCHANGED <<wsClient, stopAlarm, logs, flow, alarmH, resultH, bridge, settings, testH, calc, conn, cmd, sock, clock, logStore, logH, schedStore, alarms, schedH>>

StopStep(s) ==
    \/ StopInvoke(s) \/ StopCleared(s) \/ StopResetLogged(s) \/ StopResetClosed(s)
    \/ StopReplied(s) \/ StopCheck(s) \/ StopForceClosed(s)

\* ---- background/index.ts: onAlarm listener, STOP_ALARM ------------------

AlarmTo(a, pc) == alarmH' = [alarmH EXCEPT ![a].pc = pc]

\* the backup alarm fires (a one-shot alarm: it is gone once fired); line 513
AlarmFire(a) ==
    /\ stopAlarm
    /\ alarmH[a].pc = "new"
    /\ Active < MaxActive
    /\ \A b \in AlarmIds : b < a => alarmH[b].pc # "new"
    /\ stopAlarm' = FALSE
    /\ logs' = addLog("Backup stop alarm fired")
    /\ AlarmTo(a, "logFired")
    /\ UNCHANGED <<eng, wsClient, off, inbox, flow, stopH, resultH, bridge, settings, testH, calc, conn, cmd, sock, clock, logStore, logH, schedStore, alarms, schedH>>

\* lines 514-517
AlarmLogged(a) ==
    /\ alarmH[a].pc = "logFired"
    /\ eng' = clearProgressInterval(eng)
    /\ AlarmTo(a, IF eng.currentState = "recording" THEN "sendStop" ELSE "new")
    /\ UNCHANGED <<wsClient, stopAlarm, off, inbox, logs, flow, stopH, resultH, bridge, settings, testH, calc, conn, cmd, sock, clock, logStore, logH, schedStore, alarms, schedH>>

\* lines 523-524: the state the listener sets after force-closing
alarmForcedState_error(e) == setState(e, "error", "Recording did not stop")

alarmForcedState(e) == setState(e, "idle", NULL)

\* sendToOffscreen(stopRecording) settled: line 518, or the catch and line 522
AlarmStopReplied(a) ==
    /\ alarmH[a].pc = "sendStop"
    /\ IF off.doc
       THEN (\E chunks \in BOOLEAN : OffStop(chunks)) /\ AlarmTo(a, "wait2s")
       ELSE /\ UNCHANGED <<off, inbox>>
            /\ AlarmTo(a, IF eng.currentState = "recording" THEN "forceClose" ELSE "new")
    /\ UNCHANGED <<eng, wsClient, stopAlarm, logs, flow, stopH, resultH, bridge, settings, testH, calc, conn, cmd, sock, clock, logStore, logH, schedStore, alarms, schedH>>

\* line 522 after the 2 s wait
AlarmWaited(a) ==
    /\ alarmH[a].pc = "wait2s"
    /\ AlarmTo(a, IF eng.currentState = "recording" THEN "forceClose" ELSE "new")
    /\ UNCHANGED <<eng, wsClient, stopAlarm, off, inbox, logs, flow, stopH, resultH, bridge, settings, testH, calc, conn, cmd, sock, clock, logStore, logH, schedStore, alarms, schedH>>

\* lines 523-525
AlarmForceClosed(a) ==
    /\ alarmH[a].pc = "forceClose"
    /\ CloseOffscreen
    /\ eng' = alarmForcedState(eng)
    /\ logs' = addLog("Recording force-stopped by backup alarm")
    /\ AlarmTo(a, "new")
    /\ UNCHANGED <<wsClient, stopAlarm, flow, stopH, resultH, bridge, settings, testH, calc, conn, cmd, sock, clock, logStore, logH, schedStore, alarms, schedH>>

AlarmStep(a) ==
    \/ AlarmFire(a) \/ AlarmLogged(a) \/ AlarmStopReplied(a) \/ AlarmWaited(a)
    \/ AlarmForceClosed(a)

\* ---- background/index.ts: messages from the offscreen page --------------

ResTo(r, pc) == resultH' = [resultH EXCEPT ![r].pc = pc]

ResEnd(r) == resultH' = [resultH EXCEPT ![r] = NewResult]

\* handleOffscreenMessage lines 389-392
onProgress(e, msg) ==
    [e EXCEPT !.recordingElapsed = msg.elapsed, !.recordingTotal = msg.total]

\* onMessage listener lines 372-381 with handleOffscreenMessage: a progress
\* report is applied at once
DeliverProgress ==
    /\ inbox # <<>>
    /\ Head(inbox).action = "recordingProgress"
    /\ eng' = onProgress(eng, Head(inbox))
    /\ inbox' = Tail(inbox)
    /\ UNCHANGED <<wsClient, stopAlarm, off, logs, flow, stopH, alarmH, resultH, bridge, settings, testH, calc, conn, cmd, sock, clock, logStore, logH, schedStore, alarms, schedH>>

\* handleRecordingResult line 407: what the call does to the backup alarm
clearStopAlarm(armed) == FALSE

\* a result starts handleRecordingResult: line 407, chrome.alarms.clear called
DeliverResult(r) ==
    /\ inbox # <<>>
    /\ Head(inbox).action = "recordingResult"
    /\ resultH[r].pc = "new"
    /\ Active < MaxActive
    /\ \A q \in ResIds : q < r => resultH[q].pc # "new"
    /\ inbox' = Tail(inbox)
    /\ stopAlarm' = clearStopAlarm(stopAlarm)
    /\ resultH' = [resultH EXCEPT ![r] = [pc |-> "clearAlarm", success |-> Head(inbox).success,
                                         handledIn |-> NULL]]
    /\ UNCHANGED <<eng, wsClient, off, logs, flow, stopH, alarmH, bridge, settings, testH, calc, conn, cmd, sock, clock, logStore, logH, schedStore, alarms, schedH>>

\* lines 410-418: the state a result puts the engine in at once
onResult_saveAnyway(e, success) == setState(e, "saving", NULL)

onResult(e, success) == IF success THEN setState(e, "saving", NULL) ELSE e

\* lines 408-421
ResCleared(r) ==
    /\ resultH[r].pc = "clearAlarm"
    /\ eng' = onResult(clearProgressInterval(eng), resultH[r].success)
    /\ IF ~resultH[r].success
       THEN /\ logs' = addLog("Recording failed")
            /\ resultH' = [resultH EXCEPT ![r].pc = "logFailed",
                                          ![r].handledIn = eng.currentState]
       ELSE /\ logs' = logs
            /\ resultH' = [resultH EXCEPT ![r].pc = "getSettings",
                                          ![r].handledIn = eng.currentState]
    /\ UNCHANGED <<wsClient, stopAlarm, off, inbox, flow, stopH, alarmH, bridge, settings, testH, calc, conn, cmd, sock, clock, logStore, logH, schedStore, alarms, schedH>>

\* lines 412-413
ResFailLogged(r) ==
    /\ resultH[r].pc = "logFailed"
    /\ eng' = setState(eng, "error", "Recording failed")
    /\ ResTo(r, "closeFailed")
    /\ UNCHANGED <<wsClient, stopAlarm, off, inbox, logs, flow, stopH, alarmH, bridge, settings, testH, calc, conn, cmd, sock, clock, logStore, logH, schedStore, alarms, schedH>>

\* closeOffscreen() done, line 414; or the `finally` of line 443 after the
\* catch's return of line 441
ResFailClosed(r) ==
    /\ resultH[r].pc \in {"closeFailed", "closeDlFail"}
    /\ CloseOffscreen
    /\ ResEnd(r)
    /\ UNCHANGED <<eng, wsClient, stopAlarm, logs, flow, stopH, alarmH, bridge, settings, testH, calc, conn, cmd, sock, clock, logStore, logH, schedStore, alarms, schedH>>

\* lines 421-432: getSettings() returned and chrome.downloads.download is
\* called, or it threw (lines 437-439)
ResSettings(r) ==
    /\ resultH[r].pc = "getSettings"
    /\ \/ logs' = logs /\ ResTo(r, "download")
       \/ logs' = addLog("Download failed") /\ ResTo(r, "logDlFail")
    /\ UNCHANGED <<eng, wsClient, stopAlarm, off, inbox, flow, stopH, alarmH, bridge, settings, testH, calc, conn, cmd, sock, clock, logStore, logH, schedStore, alarms, schedH>>

\* lines 434-443: the download was accepted (addLog, then the `finally` calls
\* closeOffscreen), or it failed (lines 437-439)
ResDownloaded(r) ==
    /\ resultH[r].pc = "download"
    /\ \/ logs' = addLog("Recording saved") /\ ResTo(r, "closeSaved")
       \/ logs' = addLog("Download failed") /\ ResTo(r, "logDlFail")
    /\ UNCHANGED <<eng, wsClient, stopAlarm, off, inbox, flow, stopH, alarmH, bridge, settings, testH, calc, conn, cmd, sock, clock, logStore, logH, schedStore, alarms, schedH>>

\* lines 446-447
ResSavedClosed(r) ==
    /\ resultH[r].pc = "closeSaved"
    /\ CloseOffscreen
    /\ eng' = setState(eng, "idle", NULL)
    /\ logs' = addLog("Recording flow complete")
    /\ ResEnd(r)
    /\ UNCHANGED <<wsClient, stopAlarm, flow, stopH, alarmH, bridge, settings, testH, calc, conn, cmd, sock, clock, logStore, logH, schedStore, alarms, schedH>>

\* lines 440-443
ResDlFailLogged_idle(r) ==
    /\ resultH[r].pc = "logDlFail"
    /\ eng' = setState(eng, "idle", NULL)
    /\ ResTo(r, "closeDlFail")
    /\ UNCHANGED <<wsClient, stopAlarm, off, inbox, logs, flow, stopH, alarmH, bridge, settings, testH, calc, conn, cmd, sock, clock, logStore, logH, schedStore, alarms, schedH>>

ResDlFailLogged(r) ==
    /\ resultH[r].pc = "logDlFail"
    /\ eng' = setState(eng, "error", "Download failed")
    /\ ResTo(r, "closeDlFail")
    /\ UNCHANGED <<wsClient, stopAlarm, off, inbox, logs, flow, stopH, alarmH, bridge, settings, testH, calc, conn, cmd, sock, clock, logStore, logH, schedStore, alarms, schedH>>

ResStep(r) ==
    \/ DeliverResult(r) \/ ResCleared(r) \/ ResFailLogged(r) \/ ResFailClosed(r)
    \/ ResSettings(r) \/ ResDownloaded(r) \/ ResSavedClosed(r) \/ ResDlFailLogged(r)

\* ---- background/index.ts: testWsConnection -----------------------------

TestTo(t, pc) == testH' = [testH EXCEPT ![t].pc = pc]

\* messages/testConnection.ts: the handler calls testWsConnection, which
\* calls getSettings() (line 358)
TestInvoke(t) ==
    /\ testH[t].pc = "new"
    /\ Active < MaxActive
    /\ \A u \in TestIds : u < t => testH[u].pc # "new"
    /\ TestTo(t, "getSettings")
    /\ UNCHANGED <<eng, wsClient, stopAlarm, off, inbox, logs, flow, stopH, alarmH, resultH, bridge, settings, calc, conn, cmd, sock, clock, logStore, logH, schedStore, alarms, schedH>>

\* lines 358-360: getSettings() returned and connect() runs up to its first
\* attempt (ws-client lines 49-63: the existing connection is torn down), or
\* getSettings() threw (lines 363-365)
TestSettings(t) ==
    /\ testH[t].pc = "getSettings"
    /\ \/ /\ wsClient' = disconnect(wsClient)
          /\ TestTo(t, "connecting")
          /\ logs' = logs
       \/ /\ wsClient' = wsClient
          /\ TestTo(t, "new")
          /\ logs' = addLog("Connection test failed")
    /\ UNCHANGED <<eng, stopAlarm, off, inbox, flow, stopH, alarmH, resultH, bridge, settings, calc, conn, cmd, sock, clock, logStore, logH, schedStore, alarms, schedH>>

\* attemptConnect: ws.onopen sets this.ws (ws-client lines 193-201); connect
\* returns and line 361 disconnects in the same turn of the event loop
TestAttemptOpen(t) ==
    /\ testH[t].pc = "connecting"
    /\ bridge # "down"
    /\ wsClient' = disconnect([wsClient EXCEPT !.ws = "open"])
    /\ logs' = addLog("Connection test successful")
    /\ TestTo(t, "new")
    /\ UNCHANGED <<eng, stopAlarm, off, inbox, flow, stopH, alarmH, resultH, bridge, settings, calc, conn, cmd, sock, clock, logStore, logH, schedStore, alarms, schedH>>

\* the only attempt (maxRetries: 1) rejected: connect throws, lines 363-365
TestAttemptFail(t) ==
    /\ testH[t].pc = "connecting"
    /\ logs' = addLog("Connection test failed")
    /\ TestTo(t, "new")
    /\ UNCHANGED <<eng, wsClient, stopAlarm, off, inbox, flow, stopH, alarmH, resultH, bridge, settings, calc, conn, cmd, sock, clock, logStore, logH, schedStore, alarms, schedH>>

TestStep(t) ==
    \/ TestInvoke(t) \/ TestSettings(t) \/ TestAttemptOpen(t) \/ TestAttemptFail(t)

\* lines 291-293: the local ticker writes the seconds since the start
Tick ==
    /\ eng.progressInterval
    /\ \E t \in 1..MaxElapsed :
          /\ eng.recordingElapsed # t
          /\ eng' = [eng EXCEPT !.recordingElapsed = t]
    /\ UNCHANGED <<wsClient, stopAlarm, off, inbox, logs, flow, stopH, alarmH, resultH, bridge, settings, testH, calc, conn, cmd, sock, clock, logStore, logH, schedStore, alarms, schedH>>

\* ---- the system ---------------------------------------------------------

Next ==
    \/ \E f \in FlowIds : FlowStep(f)
    \/ \E type \in {"setFreqResult", "setModeResult"} : \E success \in BOOLEAN :
          WsMessage(type, success)
    \/ \E s \in StopIds : StopStep(s)
    \/ \E a \in AlarmIds : AlarmStep(a)
    \/ \E r \in ResIds : ResStep(r)
    \/ DeliverProgress
    \/ OffRecorderEnds
    \/ OffProgress
    \/ Tick

Spec == Init /\ [][Next]_vars

\* the system left to itself: no stopRecording request is made.  What has
\* been started goes on: a handler suspended at an await is resumed (storage,
\* messaging and download calls return, timers fire), and a registered
\* STOP_ALARM fires, an event the capture page has sent is delivered.
\* Nothing is assumed of the remote endpoint or of the
\* capture page.  The listener's stop message has to wait while MaxInbox
\* events of the page are in flight: it is sent once there is room (strong
\* fairness).
NextLive ==
    \/ \E f \in FlowIds : FlowStep(f)
    \/ \E type \in {"setFreqResult", "setModeResult"} : \E success \in BOOLEAN :
          WsMessage(type, success)
    \/ \E a \in AlarmIds : AlarmStep(a)
    \/ \E r \in ResIds : ResStep(r)
    \/ DeliverProgress
    \/ OffRecorderEnds
    \/ OffProgress
    \/ Tick

FlowContinue(f) == flow[f].pc # "new" /\ FlowStep(f)
AlarmContinue(a) == alarmH[a].pc # "new" /\ AlarmStep(a)
ResContinue(r) == resultH[r].pc # "new" /\ ResStep(r)

SpecLive ==
    /\ Init
    /\ [][NextLive]_vars
    /\ \A f \in FlowIds : WF_vars(FlowContinue(f))
    /\ \A a \in AlarmIds : SF_vars(AlarmContinue(a)) /\ WF_vars(AlarmFire(a))
    /\ \A r \in ResIds : WF_vars(ResContinue(r)) /\ WF_vars(DeliverResult(r))
    /\ WF_vars(DeliverProgress)

\* the system with the options page's connection test in use as well
NextTest ==
    \/ Next
    \/ \E t \in TestIds : TestStep(t)

SpecTest == Init /\ [][NextTest]_vars

\* the connection test beside one executeRecordingFlow at a time: requests
\* come one after the other, so that no two flows overlap, and no
\* stopRecording request is made
NextSolo ==
    \/ FlowStep(1)
    \/ \E type \in {"setFreqResult", "setModeResult"} : \E success \in BOOLEAN :
          WsMessage(type, success)
    \/ \E t \in TestIds : TestStep(t)
    \/ \E a \in AlarmIds : AlarmStep(a)
    \/ \E r \in ResIds : ResStep(r)
    \/ DeliverProgress
    \/ OffRecorderEnds
    \/ OffProgress
    \/ Tick

SpecSolo == Init /\ [][NextSolo]_vars

\* ---- the backup alarm's delay, on its own ------------------------------

\* the longest requested duration tried, in tenths of a minute
MaxTenths == 60

\* line 283: Math.max(params.durationMin + 0.1, 1) minutes, in seconds, for a
\* duration given in tenths of a minute
stopDelaySec_noGrace(d) == IF 6 * d >= 60 THEN 6 * d ELSE 60

stopDelaySec(d) == IF 6 * d + 6 >= 60 THEN 6 * d + 6 ELSE 60

\* line 257 and tabs/offscreen.tsx lines 135-138: durationMs =
\* durationMin * 60 * 1000 is the page's stopTimer delay; in seconds
autoStopSec(d) == (d * 6000) \div 1000

InitDelay ==
    /\ eng = [currentState |-> "idle", currentFreq |-> NullNum, currentMode |-> NULL,
              recordingElapsed |-> NullNum, recordingTotal |-> NullNum,
              errorMessage |-> NULL, progressInterval |-> FALSE]
    /\ wsClient = [ws |-> NULL, messageListeners |-> <<>>]
    /\ stopAlarm = FALSE
    /\ off = [doc |-> FALSE, recording |-> FALSE, totalDurationMs |-> 0]
    /\ inbox = <<>>
    /\ logs = ""
    /\ settings = [deviceId |-> "usb-audio"]
    /\ flow = [f \in FlowIds |-> NewFlow]
    /\ stopH = [s \in StopIds |-> [pc |-> "new"]]
    /\ alarmH = [a \in AlarmIds |-> [pc |-> "new"]]
    /\ resultH = [r \in ResIds |-> NewResult]
    /\ bridge = "flaky"
    /\ testH = [t \in TestIds |-> [pc |-> "new"]]
    /\ conn = NoConnect
    /\ cmd = [c \in CmdIds |-> NewCmd]
    /\ sock = NoSock
    /\ clock = NoClock
    /\ logStore = <<>>
    /\ logH = [h \in LogRunIds |-> NoLogRun]
    /\ schedStore = <<>>
    /\ alarms = [id \in SchedIds |-> NoAlarm]
    /\ schedH = [h \in SchedRunIds |-> NoSchedRun]
    /\ \E d \in 1..MaxTenths : calc = [op |-> "duration", d |-> d]

\* lines 257 and 283-286: both delays computed from the requested duration
ArmDelay ==
    /\ calc.op = "duration"
    /\ calc' = [op |-> "armed", d |-> calc.d,
                stopDelay |-> stopDelaySec(calc.d),
                autoStop |-> autoStopSec(calc.d)]
    /\ UNCHANGED <<eng, wsClient, stopAlarm, off, inbox, logs, flow, stopH, alarmH, resultH, bridge, settings, testH, conn, cmd, sock, clock, logStore, logH, schedStore, alarms, schedH>>

NextDelay == ArmDelay

SpecDelay == InitDelay /\ [][NextDelay]_vars

\* ---- lib/storage.ts: computeDurationMin ---------------------------------

\* the "HH:MM" values a time input yields, as the pair split(":").map(Number)
\* returns
TimesOfDay == [h : 0..23, m : 0..59]

computeDurationMin_noWrap(startTime, endTime) ==
    (endTime.h * 60 + endTime.m) - (startTime.h * 60 + startTime.m)

computeDurationMin_strict(startTime, endTime) ==
    LET startMin == startTime.h * 60 + startTime.m
        endMin == endTime.h * 60 + endTime.m
        diff == endMin - startMin
    IN  IF diff < 0 THEN diff + 24 * 60 ELSE diff

\* lines 241-252
computeDurationMin(startTime, endTime) ==
    LET startMin == startTime.h * 60 + startTime.m
        endMin == endTime.h * 60 + endTime.m
        diff == endMin - startMin
    IN  IF diff <= 0 THEN diff + 24 * 60 ELSE diff

InitDuration ==
    /\ eng = [currentState |-> "idle", currentFreq |-> NullNum, currentMode |-> NULL,
              recordingElapsed |-> NullNum, recordingTotal |-> NullNum,
              errorMessage |-> NULL, progressInterval |-> FALSE]
    /\ wsClient = [ws |-> NULL, messageListeners |-> <<>>]
    /\ stopAlarm = FALSE
    /\ off = [doc |-> FALSE, recording |-> FALSE, totalDurationMs |-> 0]
    /\ inbox = <<>>
    /\ logs = ""
    /\ settings = [deviceId |-> "usb-audio"]
    /\ flow = [f \in FlowIds |-> NewFlow]
    /\ stopH = [s \in StopIds |-> [pc |-> "new"]]
    /\ alarmH = [a \in AlarmIds |-> [pc |-> "new"]]
    /\ resultH = [r \in ResIds |-> NewResult]
    /\ bridge = "flaky"
    /\ testH = [t \in TestIds |-> [pc |-> "new"]]
    /\ conn = NoConnect
    /\ cmd = [c \in CmdIds |-> NewCmd]
    /\ sock = NoSock
    /\ clock = NoClock
    /\ logStore = <<>>
    /\ logH = [h \in LogRunIds |-> NoLogRun]
    /\ schedStore = <<>>
    /\ alarms = [id \in SchedIds |-> NoAlarm]
    /\ schedH = [h \in SchedRunIds |-> NoSchedRun]
    /\ \E startTime, endTime \in TimesOfDay :
          calc = [op |-> "schedule", startTime |-> startTime, endTime |-> endTime]

\* background/index.ts line 569: the duration of a schedule that fires
ScheduleDuration ==
    /\ calc.op = "schedule"
    /\ calc' = [op |-> "computed", startTime |-> calc.startTime, endTime |-> calc.endTime,
                durationMin |-> computeDurationMin(calc.startTime, calc.endTime)]
    /\ UNCHANGED <<eng, wsClient, stopAlarm, off, inbox, logs, flow, stopH, alarmH, resultH, bridge, settings, testH, conn, cmd, sock, clock, logStore, logH, schedStore, alarms, schedH>>

NextDuration == ScheduleDuration

SpecDuration == InitDuration /\ [][NextDuration]_vars

\* ---- lib/ws-client.ts on its own: any caller, any peer ------------------

\* the variables of the engine, which a WsClient taken on its own leaves alone
engineVars ==
    <<eng, stopAlarm, off, inbox, logs, settings, flow, stopH, alarmH, resultH, bridge,
      testH, calc, clock, logStore, logH, schedStore, alarms, schedH>>

\* ConnectOptions.maxRetries as the callers pass it (1 by testWsConnection,
\* 3 by executeRecordingFlow and by default)
RetryOptions == 1..maxRetries
\* how an attemptConnect rejects: its timer (lines 187-191), onerror (lines
\* 203-209), onclose before open (lines 211-222)
ConnErrors == {"Connection timeout", "WebSocket error", "WebSocket closed before open"}
\* the expectedType of the commands, and the types of the inbound messages
Tags == {"setFreqResult", "setModeResult"}
MsgTypes == Tags \cup {"status"}

InitWs ==
    /\ eng = [currentState |-> "idle", currentFreq |-> NullNum, currentMode |-> NULL,
              recordingElapsed |-> NullNum, recordingTotal |-> NullNum,
              errorMessage |-> NULL, progressInterval |-> FALSE]
    /\ wsClient = [ws |-> NULL, messageListeners |-> <<>>]
    /\ stopAlarm = FALSE
    /\ off = [doc |-> FALSE, recording |-> FALSE, totalDurationMs |-> 0]
    /\ inbox = <<>>
    /\ logs = ""
    /\ settings = [deviceId |-> "usb-audio"]
    /\ flow = [f \in FlowIds |-> NewFlow]
    /\ stopH = [s \in StopIds |-> [pc |-> "new"]]
    /\ alarmH = [a \in AlarmIds |-> [pc |-> "new"]]
    /\ resultH = [r \in ResIds |-> NewResult]
    /\ bridge = "flaky"
    /\ testH = [t \in TestIds |-> [pc |-> "new"]]
    /\ calc = NoCalc
    /\ conn = NoConnect
    /\ cmd = [c \in CmdIds |-> NewCmd]
    /\ sock = NoSock
    /\ clock = NoClock
    /\ logStore = <<>>
    /\ logH = [h \in LogRunIds |-> NoLogRun]
    /\ schedStore = <<>>
    /\ alarms = [id \in SchedIds |-> NoAlarm]
    /\ schedH = [h \in SchedRunIds |-> NoSchedRun]

\* connect line 73: a delay follows a failed attempt
retryDelay_always(attempt, max) == TRUE

retryDelay(attempt, max) == attempt < max

\* connect line 61, `attempt++` and the loop condition: the next attempt
\* starts, or the loop is left and line 79 throws with lastError
nextAttempt(k, attempt) ==
    IF attempt <= k.maxRetries
    THEN [k EXCEPT !.pc = "attempting", !.attempt = attempt, !.made = @ + 1]
    ELSE [k EXCEPT !.pc = "rejected", !.attempt = attempt, !.error = k.lastError]

\* connect lines 49-63: the old connection torn down, the first attempt started
WsConnect(n) ==
    /\ conn.pc \in {"idle", "resolved", "rejected"}
    /\ wsClient' = disconnect(wsClient)
    /\ conn' = nextAttempt([NoConnect EXCEPT !.maxRetries = n], 1)
    /\ UNCHANGED <<cmd, sock, clock, logStore, logH, schedStore, alarms, schedH>>
    /\ UNCHANGED engineVars

\* attemptConnect lines 193-201 (onopen) and connect lines 63-65
WsAttemptOpen ==
    /\ conn.pc = "attempting"
    /\ wsClient' = [wsClient EXCEPT !.ws = "open"]
    /\ conn' = [conn EXCEPT !.pc = "resolved"]
    /\ UNCHANGED <<cmd, sock, clock, logStore, logH, schedStore, alarms, schedH>>
    /\ UNCHANGED engineVars

\* attemptConnect rejected; connect lines 66-76
WsAttemptFail(err) ==
    /\ conn.pc = "attempting"
    /\ LET k == [conn EXCEPT !.lastError = err]
       IN  conn' = IF retryDelay(conn.attempt, conn.maxRetries)
                   THEN [k EXCEPT !.pc = "delay", !.delays = @ + 1]
                   ELSE nextAttempt(k, conn.attempt + 1)
    /\ UNCHANGED <<wsClient, cmd, sock, clock, logStore, logH, schedStore, alarms, schedH>>
    /\ UNCHANGED engineVars

\* the delay of line 74 is over: the loop goes round
WsDelayDone ==
    /\ conn.pc = "delay"
    /\ conn' = nextAttempt(conn, conn.attempt + 1)
    /\ UNCHANGED <<wsClient, cmd, sock, clock, logStore, logH, schedStore, alarms, schedH>>
    /\ UNCHANGED engineVars

cleanup_all(c, owner, type) == [c EXCEPT !.messageListeners = <<>>]

\* sendCommand lines 117-123: cleanup of the call that owns slot c
cleanup(c, owner, type) == removeMessageListener(c, owner, type)

\* sendCommand lines 93-151.  sendOk: whether JSON.stringify and ws.send
\* return (line 140) or throw (lines 142-149)
WsSendCommand(c, type, sendOk) ==
    /\ cmd[c].pc # "pending"
    /\ IF ~isConnected(wsClient)
       THEN /\ cmd' = [cmd EXCEPT ![c] = [pc |-> "rejected", type |-> type,
                                         timer |-> FALSE, outcome |-> "not connected"]]
            /\ UNCHANGED <<wsClient, sock, clock, logStore, logH, schedStore, alarms, schedH>>
       ELSE /\ sock.sent < MaxSent
            /\ IF sendOk
               THEN /\ wsClient' = addMessageListener(wsClient, c, type)
                    /\ sock' = [sock EXCEPT !.sent = @ + 1]
                    /\ cmd' = [cmd EXCEPT ![c] = [pc |-> "pending", type |-> type,
                                                 timer |-> TRUE, outcome |-> NULL]]
               ELSE /\ wsClient' = cleanup(addMessageListener(wsClient, c, type), c, type)
                    /\ sock' = sock
                    /\ cmd' = [cmd EXCEPT ![c] = [pc |-> "rejected", type |-> type,
                                                 timer |-> FALSE, outcome |-> "send failed"]]
    /\ UNCHANGED conn
    /\ UNCHANGED engineVars

\* sendCommand line 109: the listener's test of an inbound message
matches_any(l, type) == TRUE

matches(l, type) == l.type = type

\* setupMessageHandler lines 237-239: the listeners of the copied list are
\* called in order; a matching one runs cleanup and resolves (lines 109-113)
RECURSIVE dispatch(_, _, _)
dispatch(st, ls, type) ==
    IF ls = <<>> THEN st
    ELSE LET l == Head(ls)
         IN  IF matches(l, type)
             THEN dispatch([c |-> cleanup(st.c, l.owner, l.type),
                            cmd |-> [st.cmd EXCEPT ![l.owner] =
                                        [@ EXCEPT !.pc = "resolved", !.timer = FALSE,
                                                  !.outcome = "response"]]],
                           Tail(ls), type)
             ELSE dispatch(st, Tail(ls), type)

onParseError_clears(st) == [st EXCEPT !.c = [@ EXCEPT !.messageListeners = <<>>]]

\* setupMessageHandler lines 241-243: the catch of a JSON.parse that threw
\* writes to the console
onParseError(st) == st

\* setupMessageHandler lines 232-243: onmessage.  parsed: whether JSON.parse
\* returns; if it throws the catch only logs
WsOnMessage(type, parsed) ==
    /\ isConnected(wsClient)
    /\ sock' = [sock EXCEPT !.lastIn = IF parsed THEN type ELSE "junk"]
    /\ LET st == IF parsed
                 THEN dispatch([c |-> wsClient, cmd |-> cmd], wsClient.messageListeners, type)
                 ELSE onParseError([c |-> wsClient, cmd |-> cmd])
       IN  /\ wsClient' = st.c
           /\ cmd' = st.cmd
    /\ UNCHANGED conn
    /\ UNCHANGED engineVars

\* sendCommand lines 126-133: the timer of the call in slot c fires
WsTimeout(c) ==
    /\ cmd[c].timer
    /\ wsClient' = cleanup(wsClient, c, cmd[c].type)
    /\ cmd' = [cmd EXCEPT ![c] = [@ EXCEPT !.pc = "rejected", !.timer = FALSE,
                                           !.outcome = "timeout"]]
    /\ UNCHANGED <<conn, sock, clock, logStore, logH, schedStore, alarms, schedH>>
    /\ UNCHANGED engineVars

\* disconnect lines 156-174, called by the owner of the client
WsDisconnect ==
    /\ wsClient # disconnect(wsClient)
    /\ wsClient' = disconnect(wsClient)
    /\ UNCHANGED <<conn, cmd, sock, clock, logStore, logH, schedStore, alarms, schedH>>
    /\ UNCHANGED engineVars

\* the peer closes the connection: readyState is no longer OPEN
WsPeerClose ==
    /\ wsClient.ws = "open"
    /\ wsClient' = [wsClient EXCEPT !.ws = "closed"]
    /\ UNCHANGED <<conn, cmd, sock, clock, logStore, logH, schedStore, alarms, schedH>>
    /\ UNCHANGED engineVars

\* setupMessageHandler lines 246-251: onclose
WsOnClose ==
    /\ wsClient.ws = "closed"
    /\ wsClient' = [wsClient EXCEPT !.ws = NULL]
    /\ UNCHANGED <<conn, cmd, sock, clock, logStore, logH, schedStore, alarms, schedH>>
    /\ UNCHANGED engineVars

NextWs ==
    \/ \E n \in RetryOptions : WsConnect(n)
    \/ WsAttemptOpen
    \/ \E err \in ConnErrors : WsAttemptFail(err)
    \/ WsDelayDone
    \/ \E c \in CmdIds, type \in Tags, sendOk \in BOOLEAN : WsSendCommand(c, type, sendOk)
    \/ \E type \in MsgTypes, parsed \in BOOLEAN : WsOnMessage(type, parsed)
    \/ \E c \in CmdIds : WsTimeout(c)
    \/ WsDisconnect
    \/ WsPeerClose
    \/ WsOnClose

SpecWs == InitWs /\ [][NextWs]_vars

\* ---- lib/storage.ts: addLog on its own ----------------------------------
\* The stored log is the sequence of its entries, newest first; an entry is
\* its timestamp (level, message and data are never read back by addLog).
\* chrome.storage.local serves the calls in the order they are made, so
\* getLogs() returns the log as it is when addLog makes the call, and set()
\* replaces it when the call resumes.

MAX_LOGS == 200

\* a log of n entries written by n calls made one after another
StoredLog(n) == [i \in 1..n |-> n + 1 - i]

\* the lengths of the log the calls start from
LogFills == {0, MAX_LOGS - 2, MAX_LOGS - 1, MAX_LOGS}

\* the engine, the client and the capture page at rest
AtRest ==
    /\ eng = [currentState |-> "idle", currentFreq |-> NullNum, currentMode |-> NULL,
              recordingElapsed |-> NullNum, recordingTotal |-> NullNum,
              errorMessage |-> NULL, progressInterval |-> FALSE]
    /\ wsClient = [ws |-> NULL, messageListeners |-> <<>>]
    /\ stopAlarm = FALSE
    /\ off = [doc |-> FALSE, recording |-> FALSE, totalDurationMs |-> 0]
    /\ inbox = <<>>
    /\ settings = [deviceId |-> "usb-audio"]
    /\ flow = [f \in FlowIds |-> NewFlow]
    /\ stopH = [s \in StopIds |-> [pc |-> "new"]]
    /\ alarmH = [a \in AlarmIds |-> [pc |-> "new"]]
    /\ resultH = [r \in ResIds |-> NewResult]
    /\ bridge = "flaky"
    /\ testH = [t \in TestIds |-> [pc |-> "new"]]
    /\ calc = NoCalc
    /\ conn = NoConnect
    /\ cmd = [c \in CmdIds |-> NewCmd]
    /\ sock = NoSock

InitLog ==
    /\ AtRest
    /\ logs = ""
    /\ \E n \in LogFills :
          /\ logStore = StoredLog(n)
          /\ clock = [now |-> n, boots |-> 0, calls |-> 0]
    /\ logH = [h \in LogRunIds |-> NoLogRun]
    /\ schedStore = <<>>
    /\ alarms = [id \in SchedIds |-> NoAlarm]
    /\ schedH = [h \in SchedRunIds |-> NoSchedRun]

logVars == <<clock, logStore, logH>>

storageOnly ==
    <<eng, wsClient, stopAlarm, off, inbox, settings, flow, stopH, alarmH, resultH,
      bridge, testH, calc, conn, cmd, sock>>

\* addLog: logs.length > MAX_LOGS => logs.length = MAX_LOGS
capLogs_none(entries) == entries

capLogs(entries) ==
    IF Len(entries) > MAX_LOGS THEN SubSeq(entries, 1, MAX_LOGS) ELSE entries

\* addLog: the entry is stamped and getLogs() is called
AddLogCall(h) ==
    /\ logH[h].pc = "new"
    /\ \A g \in LogRunIds : g < h => logH[g].pc # "new"
    /\ clock.calls < MaxLogCalls
    /\ clock' = [clock EXCEPT !.now = @ + 1, !.calls = @ + 1]
    /\ logH' = [logH EXCEPT ![h] = [pc |-> "loaded", entry |-> clock.now + 1,
                                    logs |-> logStore]]
    /\ UNCHANGED <<logStore, logs, schedStore, alarms, schedH>>
    /\ UNCHANGED storageOnly

\* addLog: logs.unshift(entry), the cap, chrome.storage.local.set
AddLogWrite(h) ==
    /\ logH[h].pc = "loaded"
    /\ logStore' = capLogs(<<logH[h].entry>> \o logH[h].logs)
    /\ logH' = [logH EXCEPT ![h] = NoLogRun]
    /\ UNCHANGED <<clock, logs, schedStore, alarms, schedH>>
    /\ UNCHANGED storageOnly

NextLog ==
    \/ \E h \in LogRunIds : AddLogCall(h)
    \/ \E h \in LogRunIds : AddLogWrite(h)

SpecLog == InitLog /\ [][NextLog]_vars

\* ---- schedules and their start alarms, on their own ---------------------
\* Time is counted in minutes of local time from a midnight, every day having
\* 24 * 60 of them.  chrome.alarms takes effect in the step that calls it;
\* chrome.storage.local serves get and set in the order they are called.  An
\* alarm fires at its scheduled time or later; chrome drops a fired alarm
\* that has no period and moves one that has a period on by its period.

MAX_DRIFT_MIN == 5

\* Schedule.startTime of the schedules in use
StartTimes == {[h |-> 1, m |-> 10]}

\* the schedules a createSchedule request carries (all pass its field check)
ScheduleSet ==
    [id : SchedIds, enabled : BOOLEAN, type : {"daily", "once"},
     startTime : StartTimes, endTime : {[h |-> 0, m |-> 40]}]

\* the instants the clock shows: each start time of each day, exactly, five
\* minutes and six minutes later
Instants ==
    {0} \cup {d * (24 * 60) + (t.h * 60 + t.m) + k :
                d \in 0..MaxDay, t \in StartTimes, k \in {0, MAX_DRIFT_MIN, MAX_DRIFT_MIN + 1}}

InitSched ==
    /\ AtRest
    /\ logs = ""
    /\ clock = NoClock
    /\ logStore = <<>>
    /\ logH = [h \in LogRunIds |-> NoLogRun]
    /\ schedStore = <<>>
    /\ alarms = [id \in SchedIds |-> NoAlarm]
    /\ schedH = [h \in SchedRunIds |-> NoSchedRun]

\* createAlarmFromSchedule lines 467-476: target, today or tomorrow
nextOccurrence_today(t, startTime) ==
    LET target == (t \div (24 * 60)) * (24 * 60) + (startTime.h * 60 + startTime.m)
    IN  IF target < t THEN target + 24 * 60 ELSE target

nextOccurrence(t, startTime) ==
    LET target == (t \div (24 * 60)) * (24 * 60) + (startTime.h * 60 + startTime.m)
    IN  IF target <= t THEN target + 24 * 60 ELSE target

\* createAlarmFromSchedule lines 478-485: alarmInfo
alarmInfo(t, schedule) ==
    [set |-> TRUE, when |-> nextOccurrence(t, schedule.startTime),
     period |-> IF schedule.type = "daily" THEN 24 * 60 ELSE 0]

\* createAlarmFromSchedule lines 456-493, at time t on the alarms al
createAlarmFromSchedule(al, schedule, t) ==
    IF ~schedule.enabled
    THEN [al EXCEPT ![schedule.id] = NoAlarm]
    ELSE [al EXCEPT ![schedule.id] = alarmInfo(t, schedule)]

\* schedules.findIndex / schedules.find
findIndex(schedules, id) ==
    IF \E i \in 1..Len(schedules) : schedules[i].id = id
    THEN CHOOSE i \in 1..Len(schedules) :
            /\ schedules[i].id = id
            /\ \A j \in 1..(i - 1) : schedules[j].id # id
    ELSE 0

\* upsertSchedule lines 156-161
upsert(schedules, schedule) ==
    LET idx == findIndex(schedules, schedule.id)
    IN  IF idx > 0 THEN [schedules EXCEPT ![idx] = schedule]
        ELSE Append(schedules, schedule)

\* schedules.filter((s) => s.id !== id)
without(schedules, id) ==
    LET Keep(s) == s.id # id IN SelectSeq(schedules, Keep)

\* onAlarm listener lines 541-545: drift > MAX_DRIFT_MS
driftTooLarge_never(t, scheduledTime) == FALSE

driftTooLarge(t, scheduledTime) ==
    (IF t >= scheduledTime THEN t - scheduledTime ELSE scheduledTime - t) > MAX_DRIFT_MIN

\* a free slot is taken lowest first
SchedFree(h) ==
    /\ schedH[h].kind = "none"
    /\ \A g \in SchedRunIds : g < h => schedH[g].kind # "none"

SchedAt(h, kind, pc) == schedH[h].kind = kind /\ schedH[h].pc = pc

SchedEnd(h) == schedH' = [schedH EXCEPT ![h] = NoSchedRun]

schedRest == <<logStore, logH>>

\* time passes
SchedTick ==
    /\ \E t \in Instants :
          /\ t > clock.now
          /\ clock' = [clock EXCEPT !.now = t]
    /\ UNCHANGED <<logs, schedStore, alarms, schedH>>
    /\ UNCHANGED schedRest
    /\ UNCHANGED storageOnly

\* createSchedule lines 26-35, upsertSchedule line 155: getSchedules() called
SchedCreateCall(h, schedule) ==
    /\ SchedFree(h)
    /\ clock.calls < MaxSchedCalls
    /\ schedH' = [schedH EXCEPT ![h] =
                    [NoSchedRun EXCEPT !.kind = "create", !.pc = "loaded",
                                       !.id = schedule.id, !.schedule = schedule,
                                       !.schedules = schedStore]]
    /\ clock' = [clock EXCEPT !.calls = @ + 1]
    /\ UNCHANGED <<logs, schedStore, alarms>>
    /\ UNCHANGED schedRest
    /\ UNCHANGED storageOnly

\* upsertSchedule lines 156-162: saveSchedules() called
SchedCreateSave(h) ==
    /\ SchedAt(h, "create", "loaded")
    /\ schedStore' = upsert(schedH[h].schedules, schedH[h].schedule)
    /\ schedH' = [schedH EXCEPT ![h].pc = "saved", ![h].schedules = <<>>]
    /\ UNCHANGED <<clock, logs, alarms>>
    /\ UNCHANGED schedRest
    /\ UNCHANGED storageOnly

\* createSchedule line 38: createAlarmFromSchedule, then res.send
SchedCreateAlarm(h) ==
    /\ SchedAt(h, "create", "saved")
    /\ alarms' = createAlarmFromSchedule(alarms, schedH[h].schedule, clock.now)
    /\ logs' = IF schedH[h].schedule.enabled THEN addLog("Alarm created") ELSE logs
    /\ SchedEnd(h)
    /\ UNCHANGED <<clock, schedStore>>
    /\ UNCHANGED schedRest
    /\ UNCHANGED storageOnly

\* deleteSchedule handler lines 607-615: chrome.alarms.clear
SchedDeleteCall(h, id) ==
    /\ SchedFree(h)
    /\ clock.calls < MaxSchedCalls
    /\ clock' = [clock EXCEPT !.calls = @ + 1]
    /\ alarms' = [alarms EXCEPT ![id] = NoAlarm]
    /\ schedH' = [schedH EXCEPT ![h] =
                    [NoSchedRun EXCEPT !.kind = "delete", !.pc = "cleared", !.id = id]]
    /\ UNCHANGED <<logs, schedStore>>
    /\ UNCHANGED schedRest
    /\ UNCHANGED storageOnly

\* deleteSchedule (storage) line 169: getSchedules() called
SchedDeleteLoad(h) ==
    /\ SchedAt(h, "delete", "cleared")
    /\ schedH' = [schedH EXCEPT ![h].pc = "loaded", ![h].schedules = schedStore]
    /\ UNCHANGED <<clock, logs, schedStore, alarms>>
    /\ UNCHANGED schedRest
    /\ UNCHANGED storageOnly

\* deleteSchedule (storage) line 170, handler lines 620-622
SchedDeleteSave(h) ==
    /\ SchedAt(h, "delete", "loaded")
    /\ schedStore' = without(schedH[h].schedules, schedH[h].id)
    /\ logs' = addLog("Schedule deleted")
    /\ SchedEnd(h)
    /\ UNCHANGED <<clock, alarms>>
    /\ UNCHANGED schedRest
    /\ UNCHANGED storageOnly

\* chrome fires the start alarm of id; listener lines 531-534
SchedFire(h, id) ==
    /\ SchedFree(h)
    /\ alarms[id].set
    /\ alarms[id].when <= clock.now
    /\ \/ /\ alarms[id].period = 0
          /\ alarms' = [alarms EXCEPT ![id] = NoAlarm]
       \/ /\ alarms[id].period > 0
          /\ alarms' = [alarms EXCEPT ![id].when = @ + alarms[id].period]
    /\ logs' = addLog("Alarm fired")
    /\ schedH' = [schedH EXCEPT ![h] =
                    [NoSchedRun EXCEPT !.kind = "fire", !.pc = "fired", !.id = id,
                                       !.scheduledTime = alarms[id].when]]
    /\ UNCHANGED <<clock, schedStore>>
    /\ UNCHANGED schedRest
    /\ UNCHANGED storageOnly

\* listener lines 536-551: the drift check, getSchedules() called
SchedFireCheck(h) ==
    /\ SchedAt(h, "fire", "fired")
    /\ IF driftTooLarge(clock.now, schedH[h].scheduledTime)
       THEN /\ logs' = addLog("Alarm drift too large, skipping")
            /\ SchedEnd(h)
       ELSE /\ logs' = logs
            /\ schedH' = [schedH EXCEPT ![h].pc = "loaded", ![h].schedules = schedStore]
    /\ UNCHANGED <<clock, schedStore, alarms>>
    /\ UNCHANGED schedRest
    /\ UNCHANGED storageOnly

\* listener lines 552-563: find, and for a one-shot schedule saveSchedules();
\* lines 569-576 for a daily one
SchedFireFound(h) ==
    /\ SchedAt(h, "fire", "loaded")
    /\ LET idx == findIndex(schedH[h].schedules, schedH[h].id) IN
       IF idx = 0
       THEN /\ logs' = addLog("Schedule not found")
            /\ SchedEnd(h)
            /\ schedStore' = schedStore
       ELSE LET schedule == schedH[h].schedules[idx] IN
            IF schedule.type = "once"
            THEN /\ schedStore' = without(schedH[h].schedules, schedH[h].id)
                 /\ schedH' = [schedH EXCEPT ![h].pc = "removed",
                                             ![h].schedule = schedule,
                                             ![h].schedules = <<>>]
                 /\ logs' = logs
            ELSE /\ schedStore' = schedStore
                 /\ schedH' = [schedH EXCEPT
                                 ![h].pc = "flow", ![h].schedule = schedule,
                                 ![h].schedules = <<>>,
                                 ![h].durationMin =
                                     computeDurationMin(schedule.startTime, schedule.endTime)]
                 /\ logs' = logs
    /\ UNCHANGED <<clock, alarms>>
    /\ UNCHANGED schedRest
    /\ UNCHANGED storageOnly

\* listener lines 564-576: chrome.alarms.clear, the log entry, and
\* executeRecordingFlow called
SchedFireClear(h) ==
    /\ SchedAt(h, "fire", "removed")
    /\ alarms' = [alarms EXCEPT ![schedH[h].id] = NoAlarm]
    /\ logs' = addLog("One-shot schedule removed")
    /\ schedH' = [schedH EXCEPT
                    ![h].pc = "flow",
                    ![h].durationMin =
                        computeDurationMin(schedH[h].schedule.startTime,
                                           schedH[h].schedule.endTime)]
    /\ UNCHANGED <<clock, schedStore>>
    /\ UNCHANGED schedRest
    /\ UNCHANGED storageOnly

\* listener line 571: executeRecordingFlow returned
SchedFireReturn(h) ==
    /\ SchedAt(h, "fire", "flow")
    /\ SchedEnd(h)
    /\ UNCHANGED <<clock, logs, schedStore, alarms>>
    /\ UNCHANGED schedRest
    /\ UNCHANGED storageOnly

\* the browser starts again: what was in progress is gone, the alarms are
\* kept or not; onStartup lines 586-589
SchedRestart(keep) ==
    /\ clock.boots < MaxBoots
    /\ clock' = [clock EXCEPT !.boots = @ + 1]
    /\ alarms' = IF keep THEN alarms ELSE [id \in SchedIds |-> NoAlarm]
    /\ logs' = addLog("Browser started, restoring alarms")
    /\ schedH' = [h \in SchedRunIds |->
                    IF h = 1 THEN [NoSchedRun EXCEPT !.kind = "restore", !.pc = "started"]
                    ELSE NoSchedRun]
    /\ UNCHANGED schedStore
    /\ UNCHANGED schedRest
    /\ UNCHANGED storageOnly

\* restoreAlarms line 499: getSchedules() called
SchedRestoreLoad(h) ==
    /\ SchedAt(h, "restore", "started")
    /\ schedH' = [schedH EXCEPT ![h].pc = "loaded", ![h].schedules = schedStore]
    /\ UNCHANGED <<clock, logs, schedStore, alarms>>
    /\ UNCHANGED schedRest
    /\ UNCHANGED storageOnly

\* restoreAlarms lines 500-504: one turn of the loop
restoreOne_always(al, schedule, t) == createAlarmFromSchedule(al, schedule, t)

restoreOne(al, schedule, t) ==
    IF schedule.enabled THEN createAlarmFromSchedule(al, schedule, t) ELSE al

SchedRestoreStep(h) ==
    /\ SchedAt(h, "restore", "loaded")
    /\ schedH[h].schedules # <<>>
    /\ alarms' = restoreOne(alarms, Head(schedH[h].schedules), clock.now)
    /\ logs' = IF Head(schedH[h].schedules).enabled THEN addLog("Alarm created") ELSE logs
    /\ schedH' = [schedH EXCEPT ![h].schedules = Tail(@)]
    /\ UNCHANGED <<clock, schedStore>>
    /\ UNCHANGED schedRest
    /\ UNCHANGED storageOnly

\* restoreAlarms line 505
SchedRestoreDone(h) ==
    /\ SchedAt(h, "restore", "loaded")
    /\ schedH[h].schedules = <<>>
    /\ logs' = addLog("Restored schedule(s)")
    /\ SchedEnd(h)
    /\ UNCHANGED <<clock, schedStore, alarms>>
    /\ UNCHANGED schedRest
    /\ UNCHANGED storageOnly

SchedStep(h) ==
    \/ SchedCreateSave(h)
    \/ SchedCreateAlarm(h)
    \/ SchedDeleteLoad(h)
    \/ SchedDeleteSave(h)
    \/ SchedFireCheck(h)
    \/ SchedFireFound(h)
    \/ SchedFireClear(h)
    \/ SchedFireReturn(h)
    \/ SchedRestoreLoad(h)
    \/ SchedRestoreStep(h)
    \/ SchedRestoreDone(h)

NextSched ==
    \/ SchedTick
    \/ \E h \in SchedRunIds, schedule \in ScheduleSet : SchedCreateCall(h, schedule)
    \/ \E h \in SchedRunIds, id \in SchedIds : SchedDeleteCall(h, id)
    \/ \E h \in SchedRunIds, id \in SchedIds : SchedFire(h, id)
    \/ \E keep \in BOOLEAN : SchedRestart(keep)
    \/ \E h \in SchedRunIds : SchedStep(h)

SpecSched == InitSched /\ [][NextSched]_vars

\* ---- properties ---------------------------------------------------------

\* the states in which the entry guard rejects a request
BusyStates == {"connecting", "setting_freq", "setting_mode", "recording", "saving"}

FlowsInProgress == {f \in FlowIds : flow[f].pc # "new"}

\* C1: executeRecordingFlow invoked while the engine is connecting,
\* setting_freq, setting_mode, recording or saving returns at once: the engine
\* state, the command channel, the capture context, the backup alarm and every
\* invocation in progress are as before, and the stored log has got the
\* "skipped: already busy" entry.
C1_BusyRequestOnlyLogs ==
    [][\A f \in FlowIds :
          (FlowInvoke(f) /\ eng.currentState \in BusyStates)
          => /\ UNCHANGED <<eng, wsClient, off, inbox, stopAlarm, flow, stopH, alarmH, resultH, testH>>
             /\ logs' = "Recording flow skipped: already busy"]_vars

\* a request has just been rejected while a flow was between two steps
C1_Witness ==
    /\ logs = "Recording flow skipped: already busy"
    /\ eng.currentState \in BusyStates
    /\ FlowsInProgress # {}

\* C2: at most one executeRecordingFlow invocation is past the entry guard and
\* not yet returned, whatever the interleaving of the requests.
C2_OneFlowAtATime == Cardinality(FlowsInProgress) <= 1

\* C3: executeRecordingFlow invoked while the engine is in error resets it to
\* idle with the error message cleared and goes on to load the settings; it
\* is not rejected and writes no "skipped" entry.
C3_ErrorRequestProceeds ==
    [][\A f \in FlowIds :
          (FlowInvoke(f) /\ eng.currentState = "error")
          => /\ eng' = [eng EXCEPT !.currentState = "idle", !.errorMessage = NULL,
                                   !.recordingElapsed = NullNum,
                                   !.recordingTotal = NullNum]
             /\ flow'[f].pc = "getSettings"
             /\ logs' = logs]_vars

\* a request made in error, after a failed connect, is loading its settings:
\* nothing but the request has run since the failure was logged
C3_Witness ==
    /\ logs = "WebSocket connection failed"
    /\ eng.currentState = "idle"
    /\ eng.errorMessage = NULL
    /\ flow[1].pc = "getSettings"
    /\ Active = 1

\* C4: a capture event delivered while the engine is not recording is dropped:
\* the engine's state, counters and error message stay as they are, the backup
\* alarm is not touched and no handling of a result begins.
C4_LateEventIgnored ==
    [][(eng.currentState # "recording" /\ inbox # <<>> /\ inbox' = Tail(inbox))
          => /\ eng' = eng
             /\ stopAlarm' = stopAlarm
             /\ resultH' = resultH]_vars

\* C5: a success result handled while the engine is recording puts it in
\* saving at once, and when the download has been accepted the handler leaves
\* the engine idle with the backup alarm not armed and the ticker stopped.
C5_SuccessResultSaved ==
    [][\A r \in ResIds :
          /\ (ResCleared(r) /\ resultH[r].success /\ eng.currentState = "recording")
                => eng'.currentState = "saving"
          /\ (ResSavedClosed(r) /\ resultH[r].handledIn = "recording")
                => eng'.currentState = "idle" /\ ~eng'.progressInterval /\ ~stopAlarm']_vars

\* C6: when the backup alarm's handler finds the engine still recording after
\* the 2 s it gives the capture page, or after its stop message could not be
\* sent, it closes the capture page and leaves the engine in idle with no
\* error message.
C6_WatchdogForcesIdle ==
    [][\A a \in AlarmIds :
          /\ ((AlarmWaited(a) \/ (AlarmStopReplied(a) /\ ~off.doc))
                 /\ eng.currentState = "recording")
                => alarmH'[a].pc = "forceClose"
          /\ AlarmForceClosed(a)
                => /\ eng'.currentState = "idle"
                   /\ eng'.errorMessage = NULL
                   /\ ~off'.doc
                   /\ ~off'.recording]_vars

\* the backup alarm's handler has just force-closed a recording
C6_Witness ==
    /\ logs = "Recording force-stopped by backup alarm"
    /\ eng.currentState = "idle"
    /\ ~off.doc

\* the steps a handler of a failure result may be at
FailurePcs == {"new", "clearAlarm", "logFailed", "closeFailed"}

\* C7: the handler of a failure result clears the backup alarm when it starts
\* and the ticker when it goes on, sets the engine to error with a message,
\* closes the capture page, and never sets saving or asks for a download.
C7_FailureResultEndsInError ==
    [][\A r \in ResIds :
          /\ DeliverResult(r) => ~stopAlarm'
          /\ (ResCleared(r) /\ ~resultH[r].success /\ eng.currentState = "recording")
                => /\ ~eng'.progressInterval
                   /\ eng'.currentState = "recording"
                   /\ resultH'[r].pc = "logFailed"
          /\ (ResFailLogged(r) /\ resultH[r].handledIn = "recording")
                => /\ eng'.currentState = "error"
                   /\ eng'.errorMessage = "Recording failed"
          /\ (ResFailClosed(r) /\ ~resultH[r].success) => ~off'.doc
          /\ (resultH[r].pc # "new" /\ ~resultH[r].success)
                => resultH'[r].pc \in FailurePcs]_vars

\* a failure result handled while recording has put the engine in error
C7_Witness ==
    \E r \in ResIds :
        /\ resultH[r].pc = "closeFailed"
        /\ resultH[r].handledIn = "recording"
        /\ eng.currentState = "error"
        /\ eng.errorMessage = "Recording failed"

\* C8: when the capture page answers the start message with success = false
\* (it did not start a recorder: no stream, or one already running), the flow
\* takes its failure path, which sets error.
C8_StartFailureEndsInError ==
    [][\A f \in FlowIds :
          (FlowStartReplied(f) /\ off.doc /\ ~(~off.recording /\ off'.recording))
          => flow'[f].pc = "logRecFail"]_vars

\* C9: a flow gives up connecting after exactly 3 failed attempts and then
\* sets error; while the endpoint refuses every connection the channel is
\* never open and the engine never is in setting_freq, setting_mode or
\* recording.
C9_ConnectGivesUp ==
    /\ [](\A f \in FlowIds :
             /\ flow[f].attempt <= 3
             /\ flow[f].pc = "logConnFail" => flow[f].attempt = 3)
    /\ [](bridge = "down"
             => /\ ~isConnected(wsClient)
                /\ eng.currentState \notin {"setting_freq", "setting_mode", "recording"})
    /\ [][\A f \in FlowIds :
             FlowConnectFailed(f)
             => /\ eng'.currentState = "error"
                /\ eng'.errorMessage = "WS connection failed"
                /\ flow'[f].pc = "new"
                /\ bridge = "down" => wsClient'.ws = NULL]_vars

\* a flow has ended in error against an endpoint that refuses every connection
C9_Witness ==
    /\ bridge = "down"
    /\ eng.currentState = "error"
    /\ eng.errorMessage = "WS connection failed"
    /\ logs = "WebSocket connection failed"
    /\ FlowsInProgress = {}

\* C10: a setFreq exchange that fails (a response with success = false, or
\* the timeout) takes the flow to its failure path without touching the
\* last-known frequency; the failure path sets error, disconnects the channel
\* and ends the flow, which sends no setMode.
C10_FreqFailureAborts ==
    [][/\ WsMessage("setFreqResult", FALSE)
             => /\ eng'.currentFreq = eng.currentFreq
                /\ \A i \in 1..Len(Waiters("setFreqResult")) :
                      flow'[Waiters("setFreqResult")[i].owner].pc = "logFreqFail"
       /\ \A f \in FlowIds :
             /\ (FlowTimeout(f) /\ flow[f].pc = "awaitFreq")
                   => eng' = eng /\ flow'[f].pc = "logFreqFail"
             /\ FlowFreqFailed(f)
                   => /\ eng'.currentState = "error"
                      /\ eng'.errorMessage = "setFreq failed"
                      /\ eng'.currentFreq = eng.currentFreq
                      /\ wsClient' = [ws |-> NULL, messageListeners |-> <<>>]
                      /\ flow'[f].pc = "new"]_vars

\* a flow whose setFreq was answered with success = false has ended in error,
\* the radio's frequency still unknown
C10_Witness ==
    /\ logs = "setFreq failed"
    /\ eng.currentState = "error"
    /\ eng.errorMessage = "setFreq failed"
    /\ eng.currentFreq = NullNum
    /\ wsClient.ws = NULL
    /\ FlowsInProgress = {}

\* C11: a setMode exchange that fails (a response with success = false, the
\* timeout, or a send on a closed channel) takes the flow to its failure path;
\* the failure path sets error, disconnects the channel and ends the flow,
\* which has not touched the capture page, its messages or the backup alarm.
C11_ModeFailureAborts ==
    [][/\ WsMessage("setModeResult", FALSE)
             => /\ eng'.currentMode = eng.currentMode
                /\ \A i \in 1..Len(Waiters("setModeResult")) :
                      flow'[Waiters("setModeResult")[i].owner].pc = "logModeFail"
       /\ \A f \in FlowIds :
             /\ (FlowTimeout(f) /\ flow[f].pc = "awaitMode")
                   => eng' = eng /\ flow'[f].pc = "logModeFail"
             /\ (FlowSendMode(f) /\ ~isConnected(wsClient))
                   => flow'[f].pc = "logModeFail"
             /\ flow[f].pc = "logModeFail" => flow'[f].pc \in {"logModeFail", "new"}
             /\ FlowModeFailed(f)
                   => /\ eng'.currentState = "error"
                      /\ eng'.errorMessage = "setMode failed"
                      /\ wsClient' = [ws |-> NULL, messageListeners |-> <<>>]
                      /\ flow'[f].pc = "new"
                      /\ UNCHANGED <<off, inbox, stopAlarm>>]_vars

\* a flow whose setFreq succeeded and whose setMode failed has ended in error:
\* no capture page, no backup alarm
C11_Witness ==
    /\ logs = "setMode failed"
    /\ eng.currentState = "error"
    /\ eng.errorMessage = "setMode failed"
    /\ eng.currentFreq = 7
    /\ eng.currentMode = NULL
    /\ wsClient.ws = NULL
    /\ ~off.doc
    /\ ~stopAlarm
    /\ FlowsInProgress = {}

\* C12: a flow takes its steps in order, each only after the one before it
\* succeeded: the channel opens during connect; setFreq is sent on an open
\* channel after that; the 200 ms delay starts when setFreq was answered with
\* success (the frequency is then the requested one); setMode is sent after
\* the delay; the channel is disconnected when setMode was answered with
\* success (the mode is then the requested one); the start message is sent
\* after the disconnect and ensureOffscreen; the backup alarm is armed after
\* the start message was answered, and by nothing else.
C12_StepsInOrder ==
    [][/\ \A f \in FlowIds :
             flow'[f].pc # flow[f].pc =>
                /\ flow'[f].pc = "logConnected"
                      => flow[f].pc = "connecting" /\ isConnected(wsClient')
                /\ flow'[f].pc = "awaitFreq"
                      => flow[f].pc = "logConnected" /\ isConnected(wsClient)
                /\ flow'[f].pc = "delay200"
                      => /\ flow[f].pc = "awaitFreq"
                         /\ eng'.currentFreq = flow[f].params.frequency
                /\ flow'[f].pc = "awaitMode"
                      => flow[f].pc = "delay200" /\ isConnected(wsClient)
                /\ flow'[f].pc = "logModeOk"
                      => /\ flow[f].pc = "awaitMode"
                         /\ eng'.currentMode = flow[f].params.mode
                /\ flow'[f].pc = "ensureOffscreen"
                      => flow[f].pc = "logModeOk" /\ ~isConnected(wsClient')
                /\ flow'[f].pc = "sendStart" => flow[f].pc = "ensureOffscreen"
                /\ flow'[f].pc = "logRecStarted" => flow[f].pc = "sendStart"
                /\ flow'[f].pc = "armAlarm"
                      => flow[f].pc = "logRecStarted" /\ stopAlarm'
       /\ (~stopAlarm /\ stopAlarm')
             => \E f \in FlowIds :
                   flow[f].pc = "logRecStarted" /\ flow'[f].pc = "armAlarm"]_vars

\* a flow has gone through every step and has just armed the backup alarm
C12_Witness ==
    \E f \in FlowIds :
        /\ flow[f].pc = "armAlarm"
        /\ stopAlarm
        /\ eng.currentState = "recording"
        /\ eng.currentFreq = flow[f].params.frequency
        /\ eng.currentMode = flow[f].params.mode
        /\ wsClient.ws = NULL
        /\ off.recording

\* C13: whenever the engine is recording or saving, the command channel's
\* socket is not open.
C13_NoChannelWhileRecording ==
    eng.currentState \in {"recording", "saving"} => ~isConnected(wsClient)

\* C14: when the download fails the result handler sets error with the
\* message and then closes the capture page and returns; when the download
\* was accepted it closes the capture page and sets idle.
C14_DeliveryOutcome ==
    [][\A r \in ResIds :
          /\ ResDlFailLogged(r)
                => /\ eng'.currentState = "error"
                   /\ eng'.errorMessage = "Download failed"
                   /\ resultH'[r].pc = "closeDlFail"
          /\ (ResFailClosed(r) /\ resultH[r].pc = "closeDlFail")
                => ~off'.doc /\ resultH'[r].pc = "new" /\ eng' = eng
          /\ ResSavedClosed(r)
                => /\ eng'.currentState = "idle"
                   /\ eng'.errorMessage = NULL
                   /\ ~off'.doc
                   /\ resultH'[r].pc = "new"]_vars

\* a download has failed after a success result was handled while recording:
\* the engine is in error and the handler is about to close the capture page
C14_Witness ==
    \E r \in ResIds :
        /\ resultH[r].pc = "closeDlFail"
        /\ resultH[r].handledIn = "recording"
        /\ eng.currentState = "error"
        /\ eng.errorMessage = "Download failed"

C16_StopResetsError ==
    [][\A s \in StopIds :
          /\ (StopCleared(s) /\ eng.currentState = "error")
                => stopH'[s].pc = "logReset" /\ UNCHANGED <<off, inbox>>
          /\ stopH[s].pc \in {"logReset", "resetClose"}
                => stopH'[s].pc \in {"logReset", "resetClose", "new"}
          /\ StopResetLogged(s)
                => /\ wsClient' = [ws |-> NULL, messageListeners |-> <<>>]
                   /\ UNCHANGED <<off, inbox>>
          /\ StopResetClosed(s)
                => /\ eng'.currentState = "idle"
                   /\ eng'.errorMessage = NULL
                   /\ ~off'.doc
                   /\ stopH'[s].pc = "new"]_vars

\* a stopRecording call has just reset the engine from error
C16_Witness ==
    /\ logs = "Force reset from error state"
    /\ eng.currentState = "idle"
    /\ eng.errorMessage = NULL
    /\ wsClient.ws = NULL
    /\ ~off.doc
    /\ \A s \in StopIds : stopH[s].pc = "new"

\* C17: whenever the engine is not recording, recordingElapsed and
\* recordingTotal are both null.
C17_CountersNullOutsideRecording ==
    eng.currentState # "recording"
    => eng.recordingElapsed = NullNum /\ eng.recordingTotal = NullNum

\* C18: the error message is set exactly when the engine is in error.
C18_MessageIffError ==
    (eng.errorMessage # NULL) <=> (eng.currentState = "error")

\* the engine is in error after a failed download, with its message
C18_Witness ==
    /\ eng.currentState = "error"
    /\ eng.errorMessage = "Download failed"
    /\ \A r \in ResIds : resultH[r].pc = "new"

\* C19: a flow that reaches the recording step with no device configured
\* creates the capture page, then takes its failure path: it sets error,
\* closes the capture page and returns; it sends the page no start message
\* and does not arm the backup alarm.
C19_NoDeviceAborts ==
    [][\A f \in FlowIds :
          /\ (FlowEnsured(f) /\ flow[f].deviceId = "")
                => /\ flow'[f].pc = "logRecFail"
                   /\ off' = [off EXCEPT !.doc = TRUE]
                   /\ UNCHANGED <<eng, inbox, stopAlarm>>
          /\ flow[f].pc \in {"logRecFail", "closeOffscreen"}
                => flow'[f].pc \in {"logRecFail", "closeOffscreen", "new"}
          /\ FlowRecFailed(f)
                => /\ eng'.currentState = "error"
                   /\ eng'.errorMessage = "Recording start failed"
                   /\ UNCHANGED <<off, inbox, stopAlarm>>
          /\ FlowClosed(f)
                => ~off'.doc /\ flow'[f].pc = "new" /\ UNCHANGED <<eng, stopAlarm>>]_vars

\* a flow with no device configured has ended in error, the capture page it
\* created closed again and no backup alarm armed
C19_Witness ==
    /\ settings.deviceId = ""
    /\ logs = "Recording start failed"
    /\ eng.currentState = "error"
    /\ eng.errorMessage = "Recording start failed"
    /\ eng.currentMode = "LSB"
    /\ ~off.doc
    /\ ~stopAlarm
    /\ FlowsInProgress = {}

\* C20: for every requested duration the backup alarm's delay is strictly
\* longer than the capture page's own stop timer.
C20_WatchdogOutlivesStopTimer ==
    calc.op = "armed" => calc.stopDelay > calc.autoStop

\* a duration of 0.9 min: the stop timer runs 54 s, the alarm is set to 60 s
C20_Witness ==
    /\ calc.op = "armed"
    /\ calc.autoStop = 54
    /\ calc.stopDelay = 60

\* ---- lib/ws-client.ts: properties of the client on its own --------------

\* sendCommand calls whose listener is in the client's list
Registered ==
    {wsClient.messageListeners[i].owner : i \in 1..Len(wsClient.messageListeners)}

\* C21: connect makes at most maxRetries attempts, makes none after the one
\* that opens, delays once after each failed attempt but the last, and
\* rejects only when maxRetries attempts have failed, with the error of the
\* last one.
C21_ConnectRetries ==
    [][/\ conn'.made <= conn'.maxRetries
       /\ conn'.pc \in {"attempting", "resolved"} => conn'.delays = conn'.made - 1
       /\ conn'.pc = "delay" => conn'.delays = conn'.made /\ conn'.made < conn'.maxRetries
       /\ conn'.pc = "rejected"
             => /\ conn'.made = conn'.maxRetries
                /\ conn'.delays = conn'.maxRetries - 1
       /\ \A err \in ConnErrors :
             (WsAttemptFail(err) /\ conn'.pc = "rejected") => conn'.error = err
       /\ (conn.pc \in {"resolved", "rejected"} /\ conn' # conn)
             => \E n \in RetryOptions : WsConnect(n)
       /\ WsAttemptOpen => conn'.made = conn.made /\ isConnected(wsClient')]_vars

\* connect with maxRetries 3 has failed three times and rejected with the
\* last error, after two delays
C21_Witness ==
    /\ conn.pc = "rejected"
    /\ conn.maxRetries = 3
    /\ conn.made = 3
    /\ conn.delays = 2
    /\ conn.error = "WebSocket closed before open"

\* C22: sendCommand called while the socket is not open (never connected,
\* disconnected, closed by the peer) rejects at once: no frame is sent, no
\* listener is registered and no timer is started.
C22_SendNeedsConnection ==
    [][\A c \in CmdIds, type \in Tags, sendOk \in BOOLEAN :
          (WsSendCommand(c, type, sendOk) /\ wsClient.ws # "open")
             => /\ cmd'[c].pc = "rejected"
                /\ cmd'[c].outcome = "not connected"
                /\ ~cmd'[c].timer
                /\ UNCHANGED <<wsClient, sock, clock, logStore, logH, schedStore, alarms, schedH>>]_vars

\* a call made after the peer closed the connection has been rejected, and
\* nothing was ever sent
C22_Witness ==
    /\ wsClient.ws = "closed"
    /\ wsClient.messageListeners = <<>>
    /\ sock.sent = 0
    /\ \E c \in CmdIds : cmd[c].outcome = "not connected" /\ ~cmd[c].timer

\* C23: a parsed inbound message resolves the registered calls that expect
\* its type; a registered call that expects another type stays pending, its
\* listener registered and its timer running.
C23_ResolvedByOwnTag ==
    [][\A type \in MsgTypes :
          WsOnMessage(type, TRUE)
             => \A c \in Registered :
                   IF cmd[c].type = type
                   THEN cmd'[c].pc = "resolved" /\ cmd'[c].outcome = "response"
                   ELSE /\ cmd'[c] = cmd[c]
                        /\ cmd'[c].pc = "pending"
                        /\ cmd'[c].timer
                        /\ c \in Registered']_vars

\* a call has been resolved by a message of its type
C23_Witness ==
    \E c \in CmdIds :
        /\ cmd[c].pc = "resolved"
        /\ cmd[c].outcome = "response"
        /\ sock.lastIn = cmd[c].type
        /\ sock.sent = 1

\* C24: a timer that fires rejects its call; a call that has settled has no
\* listener registered and no timer, every registered listener belongs to a
\* pending call, and a message that arrives afterwards leaves a settled call
\* as it is.
C24_NoListenerLeak ==
    [][/\ \A c \in CmdIds :
             cmd'[c].pc \in {"resolved", "rejected"}
                => c \notin Registered' /\ ~cmd'[c].timer
       /\ \A c \in Registered' : cmd'[c].pc = "pending"
       /\ Len(wsClient'.messageListeners) = Cardinality(Registered')
       /\ \A c \in CmdIds :
             WsTimeout(c)
                => /\ cmd'[c].pc = "rejected"
                   /\ cmd'[c].outcome = "timeout"
                   /\ Len(wsClient'.messageListeners) =
                         Len(wsClient.messageListeners) - (IF c \in Registered THEN 1 ELSE 0)
       /\ \A type \in MsgTypes, parsed \in BOOLEAN, c \in CmdIds :
             (WsOnMessage(type, parsed) /\ cmd[c].pc \in {"resolved", "rejected"})
                => cmd'[c] = cmd[c]]_vars

\* a call has timed out on a connection that is still open, and the list is
\* empty again
C24_Witness ==
    /\ wsClient.ws = "open"
    /\ wsClient.messageListeners = <<>>
    /\ \E c \in CmdIds : cmd[c].pc = "rejected" /\ cmd[c].outcome = "timeout"

\* C25: of two registered calls that expect different types, a message of
\* one's type resolves that one and leaves the other pending and registered,
\* and so does the timeout of one.
C25_DifferentTagsIndependent ==
    [][\A c1, c2 \in Registered :
          cmd[c1].type # cmd[c2].type
             => /\ WsTimeout(c1)
                   => cmd'[c2] = cmd[c2] /\ c2 \in Registered'
                /\ WsOnMessage(cmd[c1].type, TRUE)
                   => /\ cmd'[c1].pc = "resolved"
                      /\ cmd'[c2] = cmd[c2]
                      /\ c2 \in Registered']_vars

\* of two calls in flight with different types one has been resolved and the
\* other is still waiting
C25_Witness ==
    \E c1, c2 \in CmdIds :
        /\ cmd[c1].pc = "resolved"
        /\ cmd[c2].pc = "pending"
        /\ cmd[c2].timer
        /\ cmd[c1].type # cmd[c2].type
        /\ wsClient.messageListeners = <<[owner |-> c2, type |-> cmd[c2].type]>>
        /\ sock.sent = 2
        /\ sock.lastIn = cmd[c1].type

\* C26: when two registered calls expect the same type, a message of that
\* type resolves the one registered first and leaves the other pending and
\* registered.
C26_FirstRegisteredWins ==
    [][\A type \in Tags :
          LET ws == SelectSeq(wsClient.messageListeners, LAMBDA l : l.type = type)
          IN  (WsOnMessage(type, TRUE) /\ Len(ws) >= 2)
                 => /\ cmd'[ws[1].owner].pc = "resolved"
                    /\ \A i \in 2..Len(ws) :
                          /\ cmd'[ws[i].owner].pc = "pending"
                          /\ ws[i].owner \in Registered']_vars

\* C27: a call that is pending with its listener cleared by disconnect()
\* stays pending: no later step resolves or rejects it.
C27_AbandonedStaysPending ==
    [][\A c \in CmdIds :
          (cmd[c].pc = "pending" /\ c \notin Registered) => cmd'[c].pc = "pending"]_vars

\* C28: an inbound message that does not parse changes no call and no
\* listener, and a parsed message that follows it still resolves the
\* registered calls of its type.
C28_UnparsableDropped ==
    [][\A type \in MsgTypes :
          /\ WsOnMessage(type, FALSE) => UNCHANGED <<wsClient, cmd>>
          /\ (WsOnMessage(type, TRUE) /\ sock.lastIn = "junk")
                => \A c \in Registered : cmd[c].type = type => cmd'[c].pc = "resolved"]_vars

\* an unparsable message has just been dropped while a call was waiting
C28_Witness ==
    /\ sock.lastIn = "junk"
    /\ \E c \in Registered : cmd[c].pc = "pending" /\ cmd[c].timer

\* ---- lib/storage.ts: properties of computeDurationMin -------------------

\* a time of day in minutes since midnight
MinuteOfDay(t) == t.h * 60 + t.m

\* C29 as stated: the duration of every pair of times equals
\* (end - start) mod 1440.
C29_DurationIsDifferenceMod ==
    calc.op = "computed"
    => calc.durationMin = (MinuteOfDay(calc.endTime) - MinuteOfDay(calc.startTime)) % 1440

\* C29, amended: the duration equals (end - start) mod 1440 when the two
\* times differ, and 1440 when they are equal.
C29_DurationModDay ==
    calc.op = "computed"
    => calc.durationMin =
          IF calc.startTime = calc.endTime THEN 1440
          ELSE (MinuteOfDay(calc.endTime) - MinuteOfDay(calc.startTime)) % 1440

\* the schedule 23:30 -> 00:15 has been given 45 minutes
C29_Witness ==
    /\ calc.op = "computed"
    /\ calc.startTime = [h |-> 23, m |-> 30]
    /\ calc.endTime = [h |-> 0, m |-> 15]
    /\ calc.durationMin = 45

\* C30: the duration is in 1..1440: end - start when end is later than
\* start, 1440 + (end - start) otherwise, equal times included.
C30_DurationPositive ==
    calc.op = "computed"
    => LET s == MinuteOfDay(calc.startTime)
           e == MinuteOfDay(calc.endTime)
       IN  /\ calc.durationMin \in 1..1440
           /\ e > s => calc.durationMin = e - s
           /\ e <= s => calc.durationMin = 1440 + (e - s)

\* a schedule that starts and ends at 12:00 has been given 1440 minutes
C30_Witness ==
    /\ calc.op = "computed"
    /\ calc.startTime = [h |-> 12, m |-> 0]
    /\ calc.endTime = calc.startTime
    /\ calc.durationMin = 1440

\* ---- background/index.ts: the engine as a whole -------------------------

\* C36: whenever the engine is idle and no executeRecordingFlow and no
\* stopRecording is in progress, STOP_ALARM is not registered and the
\* progress interval is not running.
C36_IdleHasNoWatchdog ==
    (/\ eng.currentState = "idle"
     /\ FlowsInProgress = {}
     /\ \A s \in StopIds : stopH[s].pc = "new")
    => ~stopAlarm /\ ~eng.progressInterval

\* C37: with no stopRecording request, an engine that is connecting,
\* setting_freq, setting_mode, recording or saving is eventually idle or in
\* error.
C37_FlowTerminates ==
    (eng.currentState \in BusyStates) ~> (eng.currentState \in {"idle", "error"})

\* the watchdog has ended a recording whose capture page sent no result
C37_Witness ==
    /\ eng.currentState = "idle"
    /\ logs = "Recording force-stopped by backup alarm"
    /\ inbox = <<>>
    /\ ~off.doc

\* the edges of the state machine as documented
StateEdges ==
    {<<"idle", "connecting">>, <<"connecting", "setting_freq">>,
     <<"setting_freq", "setting_mode">>, <<"setting_mode", "recording">>,
     <<"recording", "saving">>, <<"saving", "idle">>,
     <<"connecting", "error">>, <<"setting_freq", "error">>,
     <<"setting_mode", "error">>, <<"recording", "error">>, <<"saving", "error">>,
     <<"recording", "idle">>, <<"idle", "error">>, <<"error", "idle">>}

\* C38: every change of the engine state follows one of the documented
\* edges.
C38_OnlyDocumentedEdges ==
    [][eng'.currentState # eng.currentState
          => <<eng.currentState, eng'.currentState>> \in StateEdges]_vars

\* the failure branches of a flow's connect, setFreq and setMode steps
TuneFailPcs == {"logConnFail", "logFreqFail", "logModeFail"}

\* C40: with a connection test running beside a single flow, the flow's
\* connect, setFreq and setMode steps fail only through the remote endpoint:
\* a connection attempt it refuses, a failure answer, or no answer to a
\* command whose listener is still registered.
C40_TestLeavesFlowAlone ==
    [][\A f \in FlowIds :
          (flow'[f].pc \in TuneFailPcs /\ flow[f].pc \notin TuneFailPcs)
             => \/ FlowAttemptFail(f)
                \/ \E type \in {"setFreqResult", "setModeResult"} : WsMessage(type, FALSE)
                \/ /\ FlowTimeout(f)
                   /\ \E i \in 1..Len(wsClient.messageListeners) :
                         wsClient.messageListeners[i].owner = f]_vars

\* ---- lib/storage.ts: properties of addLog --------------------------------

\* the entries of a stored log are newest first
NewestFirst(entries) ==
    \A i, j \in 1..Len(entries) : i < j => entries[i] > entries[j]

\* C34: the stored log never holds more than 200 entries and is newest first;
\* a call of addLog that nothing else wrote between puts its entry at the head
\* of the log above the entries it found, and when the log it found was full,
\* every entry but the last (the oldest) stays and exactly that one is gone.
C34_LogCapped ==
    [][/\ Len(logStore') <= 200
       /\ NewestFirst(logStore')
       /\ \A h \in LogRunIds :
             (logH[h].pc = "loaded" /\ logH'[h].pc = "new" /\ logH[h].logs = logStore)
                => /\ Head(logStore') = logH[h].entry
                   /\ Len(logStore) < 200 => Tail(logStore') = logStore
                   /\ Len(logStore) = 200
                        => Tail(logStore') = SubSeq(logStore, 1, 199)]_vars

\* a full log has taken one more entry: the newest is at the head, the oldest
\* entry 1 is gone and entry 2 is now the last
C34_Witness ==
    /\ Len(logStore) = 200
    /\ Head(logStore) = 201
    /\ logStore[200] = 2
    /\ \A h \in LogRunIds : logH[h].pc = "new"

\* ---- schedules and start alarms: properties -----------------------------

\* the alarm reg stands at the next occurrence of the schedule's start time
\* after t, repeating daily exactly for a daily schedule
AtNextOccurrence(reg, schedule, t) ==
    /\ reg.set
    /\ reg.when > t
    /\ reg.when <= t + 1440
    /\ reg.when % 1440 = schedule.startTime.h * 60 + schedule.startTime.m
    /\ reg.period = IF schedule.type = "daily" THEN 1440 ELSE 0

\* handler h took a step of its own (the worker was not restarted)
Stepped(h) == schedH'[h] # schedH[h] /\ clock'.boots = clock.boots

\* C31: when createSchedule has called createAlarmFromSchedule(s), no start
\* alarm is registered under s.id if s is disabled; if s is enabled the one
\* registered under s.id stands at the next occurrence of s.startTime, later
\* than now and at most 24 h ahead, with a period of 1440 minutes exactly when
\* s is daily; the alarms of other ids are as before, and the same call made
\* again at any time before the alarm is due leaves the registrations as they are.
C31_AlarmFromSchedule ==
    [][\A h \in SchedRunIds :
          (schedH[h].kind = "create" /\ schedH[h].pc = "saved" /\ Stepped(h))
             => LET s == schedH[h].schedule IN
                /\ ~s.enabled => ~alarms'[s.id].set
                /\ s.enabled => AtNextOccurrence(alarms'[s.id], s, clock.now)
                /\ \A id \in SchedIds \ {s.id} : alarms'[id] = alarms[id]
                /\ \A t \in Instants :
                      (clock.now <= t /\ (s.enabled => t < alarms'[s.id].when))
                         => createAlarmFromSchedule(alarms', s, t) = alarms']_vars

\* createSchedule ran at the very minute its daily schedule starts: the alarm
\* stands a full day ahead and repeats
C31_Witness ==
    /\ clock.now = 70
    /\ logs = "Alarm created"
    /\ alarms["a"] = [set |-> TRUE, when |-> 1510, period |-> 1440]
    /\ \A h \in SchedRunIds : schedH[h].kind = "none"

C33_OneShotRemoved ==
    [][\A h \in SchedRunIds :
          (/\ schedH[h].kind = "fire" /\ schedH'[h].kind = "none" /\ Stepped(h)
           /\ \E i \in 1..Len(schedStore) :
                 schedStore[i].id = schedH[h].id /\ schedStore[i].type = "once")
             => /\ findIndex(schedStore', schedH[h].id) = 0
                /\ ~alarms'[schedH[h].id].set]_vars

\* C35: restoreAlarms takes the stored schedules as they are when it is
\* called and gives each one a turn before it ends; the turn of an enabled
\* schedule registers its start alarm at the next occurrence of its start
\* time, the turn of a disabled one leaves the alarms as they are.
C35_RestoreRegisters ==
    [][\A h \in SchedRunIds :
          (schedH[h].kind = "restore" /\ Stepped(h))
             => /\ schedH[h].pc = "started" => schedH'[h].schedules = schedStore
                /\ schedH'[h].kind = "none" => schedH[h].schedules = <<>>
                /\ (schedH[h].pc = "loaded" /\ schedH[h].schedules # <<>>)
                      => LET s == Head(schedH[h].schedules) IN
                         /\ schedH'[h].schedules = Tail(schedH[h].schedules)
                         /\ s.enabled => AtNextOccurrence(alarms'[s.id], s, clock.now)
                         /\ s.enabled => \A id \in SchedIds \ {s.id} : alarms'[id] = alarms[id]
                         /\ ~s.enabled => alarms' = alarms]_vars

\* after a restart six minutes past the start time restoreAlarms has ended:
\* the enabled schedule stored first has its alarm a day ahead, the disabled
\* one stored second has none
C35_Witness ==
    /\ clock.boots = 1
    /\ clock.now = 76
    /\ logs = "Restored schedule(s)"
    /\ Len(schedStore) = 2
    /\ schedStore[1].enabled /\ ~schedStore[2].enabled
    /\ alarms[schedStore[1].id].set /\ alarms[schedStore[1].id].when = 1510
    /\ ~alarms[schedStore[2].id].set
    /\ \A h \in SchedRunIds : schedH[h].kind = "none"

\* C39: with no handler or listener in progress, a start alarm is registered
\* under an id exactly when an enabled schedule of that id is stored; stated
\* for the runs without a restart and with a single request so far, where no
\* two requests can have overlapped.
C39_AlarmsMatchSchedules ==
    (/\ clock.boots = 0
     /\ clock.calls <= 1
     /\ \A h \in SchedRunIds : schedH[h].kind = "none")
       => \A id \in SchedIds :
             alarms[id].set <=> \E i \in 1..Len(schedStore) :
                                    schedStore[i].id = id /\ schedStore[i].enabled

====
